---- MODULE Spec2Model ----
(***************************************************************************)
(* Schnorr constraint-system prover (src/src/toolbox/prover.rs) together   *)
(* with the single-instance verifier, the batch verifier and the           *)
(* transcript protocol it talks to.                                        *)
(*                                                                         *)
(* The group is the cyclic group of prime order Order, written additively  *)
(* as the integers modulo Order: the point k stands for k times the        *)
(* generator.  A transcript is the log of what was absorbed; a challenge   *)
(* is the value a lazily sampled oracle gives to the log at the squeeze.   *)
(***************************************************************************)
EXTENDS Integers, Sequences, FiniteSets, TLC

\* ------------------------------------------------------------------ bounds
OrderIdx == 1
Primes == <<3, 5, 7, 11>>
Order == Primes[OrderIdx]

\* ------------------------------------------------- scalar field and group
Scalars == 0 .. (Order - 1)
Points == 0 .. (Order - 1)
identity == 0
generator == 1

ScalarAdd(a, b) == (a + b) % Order
ScalarMul(a, b) == (a * b) % Order
PointAdd(P, Q) == (P + Q) % Order
PointSub(P, Q) == (P + Order - Q) % Order
PointMul(P, s) == (P * s) % Order

\* ------------------------------------------------------------- transcript
\* Transcript::new(label), append_message(label, bytes)
TranscriptNew(label) == << <<"dom-sep", label>> >>
append_message(t, label, bytes) == Append(t, <<label, bytes>>)

\* TranscriptProtocol
domain_sep(t, proof_label) == append_message(t, "proof-label", proof_label)
append_scalar_var(t, label) == append_message(t, "scvar", label)
append_point_var(t, label, P) == Append(t, <<"ptvar", label, P>>)
append_blinding_commitment(t, label, T) == Append(t, <<"blindcom", label, T>>)
\* the transcript at and after a squeeze with the given label
Squeezed(t, label) == Append(t, <<"challenge", label>>)
\* the ways the oracle answers a squeeze: as before for a log it has seen
OracleExt(o, key) ==
    IF key \in DOMAIN o THEN {o} ELSE {o @@ (key :> c) : c \in Scalars}
get_challenge(H, t, label) == H[Squeezed(t, label)]

\* ----------------------------------------------------------------- prover
EmptyCS == [transcript |-> << >>, scalars |-> << >>, points |-> << >>,
            point_labels |-> << >>, constraints |-> << >>]

\* Prover::new without the domain separation
ProverNewNoDomainSep(proof_label, t) ==
    [transcript |-> t, scalars |-> << >>,
     points |-> << >>, point_labels |-> << >>, constraints |-> << >>]

ProverNew(proof_label, t) ==
    [transcript |-> domain_sep(t, proof_label), scalars |-> << >>,
     points |-> << >>, point_labels |-> << >>, constraints |-> << >>]

\* allocate_scalar that does not bind the label
allocate_scalar_unlabelled(self, label, assignment) ==
    LET s == Append(self.scalars, assignment)
    IN [self |-> [self EXCEPT !.transcript = append_scalar_var(@, ""),
                              !.scalars = s],
        var |-> Len(s) - 1]

\* allocate_scalar that returns the length of the table, not the last index
allocate_scalar_one_based(self, label, assignment) ==
    LET s == Append(self.scalars, assignment)
    IN [self |-> [self EXCEPT !.transcript = append_scalar_var(@, label),
                              !.scalars = s],
        var |-> Len(s)]

allocate_scalar(self, label, assignment) ==
    LET s == Append(self.scalars, assignment)
    IN [self |-> [self EXCEPT !.transcript = append_scalar_var(@, label),
                              !.scalars = s],
        var |-> Len(s) - 1]

\* allocate_point that binds the label but not the value
allocate_point_unbound(self, label, assignment) ==
    LET p == Append(self.points, assignment)
    IN [self |-> [self EXCEPT !.transcript = append_message(@, "ptvar", label),
                              !.points = p,
                              !.point_labels = Append(@, label)],
        var |-> Len(p) - 1,
        point |-> assignment]

\* allocate_point that binds the value but not the label
allocate_point_unlabelled(self, label, assignment) ==
    LET p == Append(self.points, assignment)
    IN [self |-> [self EXCEPT !.transcript = append_point_var(@, "", assignment),
                              !.points = p,
                              !.point_labels = Append(@, label)],
        var |-> Len(p) - 1,
        point |-> assignment]

\* allocate_point that records the point at the front of the table
allocate_point_prepending(self, label, assignment) ==
    LET p == <<assignment>> \o self.points
    IN [self |-> [self EXCEPT !.transcript = append_point_var(@, label, assignment),
                              !.points = p,
                              !.point_labels = <<label>> \o @],
        var |-> Len(p) - 1,
        point |-> assignment]

\* allocate_point that records the point but not its label
allocate_point_no_label(self, label, assignment) ==
    LET p == Append(self.points, assignment)
    IN [self |-> [self EXCEPT !.transcript = append_point_var(@, label, assignment),
                              !.points = p],
        var |-> Len(p) - 1,
        point |-> assignment]

allocate_point(self, label, assignment) ==
    LET p == Append(self.points, assignment)
    IN [self |-> [self EXCEPT !.transcript = append_point_var(@, label, assignment),
                              !.points = p,
                              !.point_labels = Append(@, label)],
        var |-> Len(p) - 1,
        point |-> assignment]

\* constrain that also absorbs the lhs into the transcript
constrain_absorbing(self, lhs, linear_combination) ==
    [self EXCEPT !.constraints = Append(@, <<lhs, linear_combination>>),
                 !.transcript = Append(@, <<"constraint", lhs>>)]

constrain(self, lhs, linear_combination) ==
    [self EXCEPT !.constraints = Append(@, <<lhs, linear_combination>>)]

\* the inner loop of prove_impl: identity + sum of points[pt] * blindings[sc]
RECURSIVE LinComb(_, _, _)
LinComb(points, coeffs, rhs_lc) ==
    IF rhs_lc = << >> THEN identity
    ELSE LET n == Len(rhs_lc)
             last == rhs_lc[n]
         IN PointAdd(LinComb(points, coeffs, SubSeq(rhs_lc, 1, n - 1)),
                     PointMul(points[last[2] + 1], coeffs[last[1] + 1]))

\* the commitment sum stopping one term early
CommitmentSkipsLast(self, blindings, rhs_lc) ==
    PointSub(LinComb(self.points, blindings, SubSeq(rhs_lc, 1, Len(rhs_lc) - 1)), identity)

\* the commitment with the generator subtracted where the identity is
CommitmentMinusGenerator(self, blindings, rhs_lc) ==
    PointSub(LinComb(self.points, blindings, rhs_lc), generator)

Commitment(self, blindings, rhs_lc) ==
    PointSub(LinComb(self.points, blindings, rhs_lc), identity)

\* the outer loop labelling a commitment by the first rhs point, not the lhs
RECURSIVE CommitLoopRhsLabel(_, _, _)
CommitLoopRhsLabel(self, blindings, n) ==
    IF n = 0 THEN [transcript |-> self.transcript, commitments |-> << >>]
    ELSE LET prev == CommitLoopRhsLabel(self, blindings, n - 1)
             con == self.constraints[n]
             commitment == Commitment(self, blindings, con[2])
         IN [transcript |-> append_blinding_commitment(
                                prev.transcript, self.point_labels[con[2][1][2] + 1], commitment),
             commitments |-> Append(prev.commitments, commitment)]

\* the outer loop with the lhs point added into each commitment
RECURSIVE CommitLoopUsesLhs(_, _, _)
CommitLoopUsesLhs(self, blindings, n) ==
    IF n = 0 THEN [transcript |-> self.transcript, commitments |-> << >>]
    ELSE LET prev == CommitLoopUsesLhs(self, blindings, n - 1)
             con == self.constraints[n]
             commitment == PointAdd(Commitment(self, blindings, con[2]),
                                    self.points[con[1] + 1])
         IN [transcript |-> append_blinding_commitment(
                                prev.transcript, self.point_labels[con[1] + 1], commitment),
             commitments |-> Append(prev.commitments, commitment)]

\* the outer loop taking the constraints last to first
RECURSIVE CommitLoopReversed(_, _, _)
CommitLoopReversed(self, blindings, n) ==
    IF n = 0 THEN [transcript |-> self.transcript, commitments |-> << >>]
    ELSE LET prev == CommitLoopReversed(self, blindings, n - 1)
             con == self.constraints[Len(self.constraints) - n + 1]
             commitment == Commitment(self, blindings, con[2])
         IN [transcript |-> append_blinding_commitment(
                                prev.transcript, self.point_labels[con[1] + 1], commitment),
             commitments |-> Append(prev.commitments, commitment)]

\* the outer loop of prove_impl over the first n constraints
RECURSIVE CommitLoop(_, _, _)
CommitLoop(self, blindings, n) ==
    IF n = 0 THEN [transcript |-> self.transcript, commitments |-> << >>]
    ELSE LET prev == CommitLoop(self, blindings, n - 1)
             con == self.constraints[n]
             commitment == Commitment(self, blindings, con[2])
         IN [transcript |-> append_blinding_commitment(
                                prev.transcript, self.point_labels[con[1] + 1], commitment),
             commitments |-> Append(prev.commitments, commitment)]

\* responses that leave the challenge out: b + x
ResponsesNoChallenge(scalars, blindings, challenge) ==
    [i \in 1 .. Len(scalars) |-> ScalarAdd(blindings[i], scalars[i])]

\* responses off by one: b + x * c + 1
ResponsesPlusOne(scalars, blindings, challenge) ==
    [i \in 1 .. Len(scalars) |->
        ScalarAdd(ScalarAdd(blindings[i], ScalarMul(scalars[i], challenge)), 1)]

\* responses in the reverse of the allocation order
ResponsesReversed(scalars, blindings, challenge) ==
    [i \in 1 .. Len(scalars) |->
        ScalarAdd(blindings[Len(scalars) + 1 - i],
                  ScalarMul(scalars[Len(scalars) + 1 - i], challenge))]

Responses(scalars, blindings, challenge) ==
    [i \in 1 .. Len(scalars) |-> ScalarAdd(blindings[i], ScalarMul(scalars[i], challenge))]

\* prove_impl with the blindings the transcript RNG gave and the oracle H
\* prove_impl absorbing the responses into the transcript
prove_impl_absorbing_responses(self, blindings, H) ==
    LET committed == CommitLoop(self, blindings, Len(self.constraints))
        challenge == get_challenge(H, committed.transcript, "chal")
        responses == Responses(self.scalars, blindings, challenge)
    IN [challenge |-> challenge,
        responses |-> responses,
        commitments |-> committed.commitments,
        transcript |-> Append(Squeezed(committed.transcript, "chal"),
                              <<"responses", responses>>)]

\* prove_impl squeezing a second challenge after the first
prove_impl_squeezing_twice(self, blindings, H) ==
    LET committed == CommitLoop(self, blindings, Len(self.constraints))
        challenge == get_challenge(H, committed.transcript, "chal")
    IN [challenge |-> challenge,
        responses |-> Responses(self.scalars, blindings, challenge),
        commitments |-> committed.commitments,
        transcript |-> Squeezed(Squeezed(committed.transcript, "chal"), "chal")]

prove_impl(self, blindings, H) ==
    LET committed == CommitLoop(self, blindings, Len(self.constraints))
        challenge == get_challenge(H, committed.transcript, "chal")
    IN [challenge |-> challenge,
        responses |-> Responses(self.scalars, blindings, challenge),
        commitments |-> committed.commitments,
        transcript |-> Squeezed(committed.transcript, "chal")]

prove_compact(self, blindings, H) ==
    LET out == prove_impl(self, blindings, H)
    IN [proof |-> [challenge |-> out.challenge, responses |-> out.responses],
        transcript |-> out.transcript]

prove_batchable(self, blindings, H) ==
    LET out == prove_impl(self, blindings, H)
    IN [proof |-> [commitments |-> out.commitments, responses |-> out.responses],
        transcript |-> out.transcript]

\* --------------------------------------------------------------- verifier
\* The verifier mirrors the prover; its scalar table holds labels only.
VerifierNew(proof_label, t) == ProverNew(proof_label, t)

v_allocate_scalar(self, label) ==
    LET out == allocate_scalar(self, label, label)
    IN [self |-> out.self, var |-> out.var]

v_allocate_point(self, label, assignment) ==
    LET out == allocate_point(self, label, assignment)
    IN [self |-> out.self, var |-> out.var]

v_constrain(self, lhs, linear_combination) == constrain(self, lhs, linear_combination)

\* T'_i = (sum of r * Q over the rhs) - c * P_lhs
Recomputed(self, proof, con) ==
    PointSub(LinComb(self.points, proof.responses, con[2]),
             PointMul(self.points[con[1] + 1], proof.challenge))

\* verify_compact step 1 over the first n constraints: the transcript
RECURSIVE RecomputeLoop(_, _, _)
RecomputeLoop(self, proof, n) ==
    IF n = 0 THEN self.transcript
    ELSE LET con == self.constraints[n]
         IN append_blinding_commitment(RecomputeLoop(self, proof, n - 1),
                                       self.point_labels[con[1] + 1],
                                       Recomputed(self, proof, con))

\* verify_batchable step 1 over the first n constraints: the transcript
RECURSIVE AbsorbLoop(_, _, _)
AbsorbLoop(self, proof, n) ==
    IF n = 0 THEN self.transcript
    ELSE append_blinding_commitment(AbsorbLoop(self, proof, n - 1),
                                    self.point_labels[self.constraints[n][1] + 1],
                                    proof.commitments[n])

\* the check of constraint i of a batchable proof under the challenge c
CheckConstraint(self, proof, c, i) ==
    LET con == self.constraints[i]
    IN LinComb(self.points, proof.responses, con[2])
         = PointAdd(proof.commitments[i], PointMul(self.points[con[1] + 1], c))

CompactAccepts(proof, c) == c = proof.challenge

BatchableAccepts(self, proof, c) ==
    \A i \in 1 .. Len(self.constraints) : CheckConstraint(self, proof, c, i)

verify_compact(self, proof, H) ==
    LET t == RecomputeLoop(self, proof, Len(self.constraints))
    IN [result |-> IF CompactAccepts(proof, get_challenge(H, t, "chal"))
                   THEN "Ok" ELSE "VerificationFailure",
        transcript |-> Squeezed(t, "chal")]

verify_batchable(self, proof, H) ==
    LET t == AbsorbLoop(self, proof, Len(self.constraints))
    IN [result |-> IF BatchableAccepts(self, proof, get_challenge(H, t, "chal"))
                   THEN "Ok" ELSE "VerificationFailure",
        transcript |-> Squeezed(t, "chal")]

\* ------------------------------------------------------------- statements
\* A statement is what a driver replays against a constraint system: the
\* variables in allocation order and the equations over them.
Scalar(id) == [kind |-> "scalar", id |-> id, label |-> id]
Point(id) == [kind |-> "point", id |-> id, label |-> id]

\* define_proof! {sig_proof, "Sig", (x), (A), (B) : A = (x * B) }
SigShape ==
    [proof_label |-> "Sig",
     allocs |-> <<Scalar("x"), Point("A"), Point("B")>>,
     cons |-> << <<"A", << <<"x", "B">> >> >> >>,
     base |-> [B |-> generator]]

\* dleq_statement with the allocations of create_and_verify_compact_dleq;
\* H stands for the hash_to_curve point
DleqShape ==
    [proof_label |-> "DLEQProof",
     allocs |-> <<Scalar("x"), Point("B"), Point("H"), Point("A"), Point("G")>>,
     cons |-> << <<"A", << <<"x", "B">> >> >>, <<"G", << <<"x", "H">> >> >> >>,
     base |-> [B |-> generator, H |-> PointMul(generator, 2)]]

\* the same statement, its two equations constrained in the other order
DleqSwappedShape ==
    [DleqShape EXCEPT !.cons = << <<"G", << <<"x", "H">> >> >>, <<"A", << <<"x", "B">> >> >> >>]

\* a commitment to x under two bases: C = x * G + y * H, with y = 2
PedShape ==
    [proof_label |-> "Ped",
     allocs |-> <<Scalar("x"), Scalar("y"), Point("C"), Point("G"), Point("H")>>,
     cons |-> << <<"C", << <<"x", "G">>, <<"y", "H">> >> >> >>,
     base |-> [G |-> generator, H |-> PointMul(generator, 2), y |-> 2]]

\* the signature statement with a secret u = 1 that no equation uses
SpareShape ==
    [proof_label |-> "Spare",
     allocs |-> <<Scalar("x"), Scalar("u"), Point("A"), Point("B")>>,
     cons |-> << <<"A", << <<"x", "B">> >> >> >>,
     base |-> [B |-> generator, u |-> 1]]

\* an equation that multiplies one secret with two points that cancel:
\* A = x * G + x * H with H = -G
TwiceShape ==
    [proof_label |-> "Twice",
     allocs |-> <<Scalar("x"), Point("A"), Point("G"), Point("H")>>,
     cons |-> << <<"A", << <<"x", "G">>, <<"x", "H">> >> >> >>,
     base |-> [G |-> generator, H |-> PointMul(generator, Order - 1)]]

Shapes == {SigShape, DleqShape, PedShape, SpareShape}

Ids(shape, kind) ==
    {shape.allocs[i].id : i \in {j \in 1 .. Len(shape.allocs) : shape.allocs[j].kind = kind}}
LhsIds(shape) == {shape.cons[i][1] : i \in 1 .. Len(shape.cons)}

\* sum of assign[s] * assign[Q] over a rhs given by ids
RECURSIVE LinCombIds(_, _)
LinCombIds(assign, rhs) ==
    IF rhs = << >> THEN identity
    ELSE PointAdd(LinCombIds(assign, Tail(rhs)),
                  PointMul(assign[Head(rhs)[2]], assign[Head(rhs)[1]]))

\* the base points as the statement fixes them, or the identity in the place
\* of any of them: allocate_point takes any point
BaseAssignments(shape) ==
    {b \in [DOMAIN shape.base -> Scalars \cup Points] :
        \A id \in DOMAIN shape.base :
            \/ b[id] = shape.base[id]
            \/ id \in Ids(shape, "point") /\ b[id] = identity}

\* every assignment of the statement's variables: any witness, the base
\* points (and secrets) as above, any value for the lhs points
Assignments(shape) ==
    {w @@ l @@ b : w \in [Ids(shape, "scalar") \ DOMAIN shape.base -> Scalars],
                   l \in [LhsIds(shape) -> Points],
                   b \in BaseAssignments(shape)}

Input(shape, assign, domain, msg) ==
    [domain |-> domain, msg |-> msg, proof_label |-> shape.proof_label,
     allocs |-> [i \in 1 .. Len(shape.allocs) |->
                   [kind |-> shape.allocs[i].kind, id |-> shape.allocs[i].id,
                    label |-> shape.allocs[i].label, val |-> assign[shape.allocs[i].id]]],
     cons |-> shape.cons]

ValOf(in, id) ==
    LET i == CHOOSE j \in 1 .. Len(in.allocs) : in.allocs[j].id = id
    IN in.allocs[i].val
AssignOf(in) == [id \in {in.allocs[i].id : i \in 1 .. Len(in.allocs)} |-> ValOf(in, id)]

\* the witness satisfies every equation
Honest(in) ==
    \A i \in 1 .. Len(in.cons) :
        ValOf(in, in.cons[i][1]) = LinCombIds(AssignOf(in), in.cons[i][2])

\* what the verifier is given: the statement without the witness
Public(in) ==
    [in EXCEPT !.allocs = [i \in 1 .. Len(in.allocs) |->
        IF in.allocs[i].kind = "scalar" THEN [in.allocs[i] EXCEPT !.val = 0]
        ELSE in.allocs[i]]]

Domains == {"App", "Wrong"}
Messages == {"m1", "m2"}
ProofLabels == {"Sig", "DLEQProof", "Ped", "Spare"}
Labels == {"x", "A", "Z"}
Modes == {"compact", "batchable"}

ProverInputs == UNION {{Input(shape, a, "App", "m1") : a \in Assignments(shape)} : shape \in Shapes}

\* ways the verifier's input differs from the prover's in one respect
PointIdx(in) == {i \in 1 .. Len(in.allocs) : in.allocs[i].kind = "point"}
PointMismatch(in) ==
    UNION {{[in EXCEPT !.allocs[i].val = v] : v \in Points \ {in.allocs[i].val}}
           : i \in PointIdx(in)}
LabelMismatch(in) ==
    UNION {{[in EXCEPT !.allocs[i].label = l] : l \in Labels \ {in.allocs[i].label}}
           : i \in 1 .. Len(in.allocs)}
Swap(s, i, j) == [s EXCEPT ![i] = s[j], ![j] = s[i]]
OrderMismatch(in) ==
    {[in EXCEPT !.allocs = Swap(@, i, i + 1)] : i \in 1 .. (Len(in.allocs) - 1)}
TranscriptMismatch(in) ==
    {[in EXCEPT !.domain = d] : d \in Domains \ {in.domain}}
    \cup {[in EXCEPT !.msg = m] : m \in Messages \ {in.msg}}
    \cup {[in EXCEPT !.proof_label = l] : l \in ProofLabels \ {in.proof_label}}

VerifierInputs(in) ==
    IF Honest(in)
    THEN {Public(in)} \cup PointMismatch(Public(in)) \cup LabelMismatch(Public(in))
         \cup OrderMismatch(Public(in)) \cup TranscriptMismatch(Public(in))
    ELSE {Public(in)}

\* a transcript as a party holds it before the proof: created, message absorbed
Start(in) == append_message(TranscriptNew(in.domain), "msg", in.msg)

\* a constraint over ids, in the handles the driver holds
Handles(hv, con) ==
    <<hv[con[1]], [k \in 1 .. Len(con[2]) |-> <<hv[con[2][k][1]], hv[con[2][k][2]]>>]>>

\* ------------------------------------------------------------------ state
\* prover and verifier keep their last value once prove_* or verify_* has
\* consumed them.
VARIABLES
    pin,        \* the prover driver's input
    vin,        \* the verifier driver's input
    mode,       \* the proof encoding in use
    pc, step,   \* where the drivers are
    trans,      \* the two parties' Transcript objects
    prover,     \* the Prover
    pvars,      \* the handles the prover's driver holds, by variable
    verifier,   \* the Verifier
    vvars,      \* the handles the verifier's driver holds, by variable
    proof,      \* the proof as prove_* returned it
    wire,       \* the proof as the verifier receives it
    oracle,     \* the challenges squeezed so far, by transcript
    result,     \* what verify_* returned
    round,      \* the round of the signature chain
    keys,       \* the two parties' secret keys in the signature chain
    bin,        \* the batch driver's input: the instances and their points
    batch,      \* the BatchVerifier
    bvars,      \* the handles the batch driver holds, by variable
    bproofs,    \* the proofs handed to batch_verify
    each,       \* what verify_batchable returned for each proof on its own
    bufs,       \* the 64-byte buffers an RNG fills for rand_scalar, one per weight
    weights,    \* the weights rand_scalar made of them
    rng,        \* the blindings the transcript RNG gave so far, by what seeded it
    runs,       \* the runs of prove made on one statement, with their proofs
    matrix      \* a Matrix of util.rs

chainVars == <<round, keys>>
batchVars == <<bin, batch, bvars, bproofs, each>>
sessionVars == <<pin, vin, mode, trans, prover, pvars, verifier, vvars, proof, wire>>
otherVars == <<bufs, weights, rng, runs, matrix>>
vars == <<pin, vin, mode, pc, step, trans, prover, pvars, verifier, vvars,
          proof, wire, oracle, result, chainVars, batchVars, otherVars>>

NoProof == [responses |-> << >>]
NoVars == [id \in {} |-> 0]
NoOther ==
    /\ bufs = << >>
    /\ weights = << >>
    /\ rng = [k \in {} |-> << >>]
    /\ runs = << >>
    /\ matrix = << >>
NoBatch ==
    /\ bin = << >>
    /\ batch = << >>
    /\ bvars = NoVars
    /\ bproofs = << >>
    /\ each = << >>
    /\ NoOther

SessionStart ==
    /\ mode \in Modes
    /\ pc = "p_new"
    /\ step = 1
    /\ trans = [p |-> Start(pin), v |-> Start(vin)]
    /\ prover = EmptyCS
    /\ pvars = NoVars
    /\ verifier = EmptyCS
    /\ vvars = NoVars
    /\ proof = NoProof
    /\ wire = NoProof
    /\ oracle = [k \in {} |-> 0]
    /\ result = "none"
    /\ round = 1
    /\ keys = << >>
    /\ NoBatch

Init ==
    /\ pin \in ProverInputs
    /\ vin \in VerifierInputs(pin)
    /\ SessionStart

Total(in) == Len(in.allocs) + Len(in.cons)

PNew ==
    /\ pc = "p_new"
    /\ prover' = ProverNew(pin.proof_label, trans.p)
    /\ pc' = "prover"
    /\ step' = 1
    /\ UNCHANGED <<otherVars, chainVars, batchVars, pin, vin, mode, trans, pvars, verifier, vvars, proof, wire, oracle, result>>

PAllocScalar ==
    /\ pc = "prover"
    /\ step <= Len(pin.allocs)
    /\ pin.allocs[step].kind = "scalar"
    /\ LET a == pin.allocs[step]
           out == allocate_scalar(prover, a.label, a.val)
       IN /\ prover' = out.self
          /\ pvars' = pvars @@ (a.id :> out.var)
    /\ step' = step + 1
    /\ UNCHANGED <<otherVars, chainVars, batchVars, pin, vin, mode, pc, trans, verifier, vvars, proof, wire, oracle, result>>

PAllocPoint ==
    /\ pc = "prover"
    /\ step <= Len(pin.allocs)
    /\ pin.allocs[step].kind = "point"
    /\ LET a == pin.allocs[step]
           out == allocate_point(prover, a.label, a.val)
       IN /\ prover' = out.self
          /\ pvars' = pvars @@ (a.id :> out.var)
    /\ step' = step + 1
    /\ UNCHANGED <<otherVars, chainVars, batchVars, pin, vin, mode, pc, trans, verifier, vvars, proof, wire, oracle, result>>

PConstrain ==
    /\ pc = "prover"
    /\ step > Len(pin.allocs)
    /\ step <= Total(pin)
    /\ LET con == Handles(pvars, pin.cons[step - Len(pin.allocs)])
       IN prover' = constrain(prover, con[1], con[2])
    /\ step' = step + 1
    /\ UNCHANGED <<otherVars, chainVars, batchVars, pin, vin, mode, pc, trans, pvars, verifier, vvars, proof, wire, oracle, result>>

\* The verifier is built from public data alone; the drivers build it
\* before the proof exists.
VNew ==
    /\ pc = "prover"
    /\ step > Total(pin)
    /\ verifier' = VerifierNew(vin.proof_label, trans.v)
    /\ pc' = "verifier"
    /\ step' = 1
    /\ UNCHANGED <<otherVars, chainVars, batchVars, pin, vin, mode, trans, prover, pvars, vvars, proof, wire, oracle, result>>

VAllocScalar ==
    /\ pc = "verifier"
    /\ step <= Len(vin.allocs)
    /\ vin.allocs[step].kind = "scalar"
    /\ LET a == vin.allocs[step]
           out == v_allocate_scalar(verifier, a.label)
       IN /\ verifier' = out.self
          /\ vvars' = vvars @@ (a.id :> out.var)
    /\ step' = step + 1
    /\ UNCHANGED <<otherVars, chainVars, batchVars, pin, vin, mode, pc, trans, prover, pvars, proof, wire, oracle, result>>

VAllocPoint ==
    /\ pc = "verifier"
    /\ step <= Len(vin.allocs)
    /\ vin.allocs[step].kind = "point"
    /\ LET a == vin.allocs[step]
           out == v_allocate_point(verifier, a.label, a.val)
       IN /\ verifier' = out.self
          /\ vvars' = vvars @@ (a.id :> out.var)
    /\ step' = step + 1
    /\ UNCHANGED <<otherVars, chainVars, batchVars, pin, vin, mode, pc, trans, prover, pvars, proof, wire, oracle, result>>

VConstrain ==
    /\ pc = "verifier"
    /\ step > Len(vin.allocs)
    /\ step <= Total(vin)
    /\ LET con == Handles(vvars, vin.cons[step - Len(vin.allocs)])
       IN verifier' = v_constrain(verifier, con[1], con[2])
    /\ step' = step + 1
    /\ UNCHANGED <<otherVars, chainVars, batchVars, pin, vin, mode, pc, trans, prover, pvars, vvars, proof, wire, oracle, result>>

\* the blindings a transcript RNG can give: any scalar for every secret
Blindings(self) == [1 .. Len(self.scalars) -> Scalars]
ProverKey(self, blindings) ==
    Squeezed(CommitLoop(self, blindings, Len(self.constraints)).transcript, "chal")

ProveCompact ==
    /\ pc = "verifier"
    /\ step > Total(vin)
    /\ mode = "compact"
    /\ \E b \in Blindings(prover) : \E H \in OracleExt(oracle, ProverKey(prover, b)) :
         LET out == prove_compact(prover, b, H)
         IN /\ proof' = out.proof
            /\ wire' = out.proof
            /\ trans' = [trans EXCEPT !.p = out.transcript]
            /\ oracle' = H
    /\ pc' = "proved"
    /\ UNCHANGED <<otherVars, chainVars, batchVars, pin, vin, mode, step, prover, pvars, verifier, vvars, result>>

ProveBatchable ==
    /\ pc = "verifier"
    /\ step > Total(vin)
    /\ mode = "batchable"
    /\ \E b \in Blindings(prover) : \E H \in OracleExt(oracle, ProverKey(prover, b)) :
         LET out == prove_batchable(prover, b, H)
         IN /\ proof' = out.proof
            /\ wire' = out.proof
            /\ trans' = [trans EXCEPT !.p = out.transcript]
            /\ oracle' = H
    /\ pc' = "proved"
    /\ UNCHANGED <<otherVars, chainVars, batchVars, pin, vin, mode, step, prover, pvars, verifier, vvars, result>>

\* In flight, one element of the proof is replaced by another value.
Replaced(p) ==
    UNION {{[p EXCEPT !.responses[i] = r] : r \in Scalars \ {p.responses[i]}}
           : i \in 1 .. Len(p.responses)}
    \cup (IF mode = "compact"
          THEN {[p EXCEPT !.challenge = c] : c \in Scalars \ {p.challenge}}
          ELSE UNION {{[p EXCEPT !.commitments[i] = T] : T \in Points \ {p.commitments[i]}}
                      : i \in 1 .. Len(p.commitments)})

Tamper ==
    /\ pc = "proved"
    /\ wire = proof
    /\ vin = Public(pin)
    /\ Honest(pin)
    /\ wire' \in Replaced(proof)
    /\ UNCHANGED <<otherVars, chainVars, batchVars, pin, vin, mode, pc, step, trans, prover, pvars, verifier, vvars,
                   proof, oracle, result>>

VerifierKey(self, p) ==
    Squeezed(IF mode = "compact" THEN RecomputeLoop(self, p, Len(self.constraints))
             ELSE AbsorbLoop(self, p, Len(self.constraints)), "chal")

VerifyCompact ==
    /\ pc = "proved"
    /\ mode = "compact"
    /\ \E H \in OracleExt(oracle, VerifierKey(verifier, wire)) :
         LET out == verify_compact(verifier, wire, H)
         IN /\ result' = out.result
            /\ trans' = [trans EXCEPT !.v = out.transcript]
            /\ oracle' = H
    /\ pc' = "done"
    /\ UNCHANGED <<otherVars, chainVars, batchVars, pin, vin, mode, step, prover, pvars, verifier, vvars, proof, wire>>

VerifyBatchable ==
    /\ pc = "proved"
    /\ mode = "batchable"
    /\ \E H \in OracleExt(oracle, VerifierKey(verifier, wire)) :
         LET out == verify_batchable(verifier, wire, H)
         IN /\ result' = out.result
            /\ trans' = [trans EXCEPT !.v = out.transcript]
            /\ oracle' = H
    /\ pc' = "done"
    /\ UNCHANGED <<otherVars, chainVars, batchVars, pin, vin, mode, step, prover, pvars, verifier, vvars, proof, wire>>

Next ==
    \/ PNew \/ PAllocScalar \/ PAllocPoint \/ PConstrain
    \/ VNew \/ VAllocScalar \/ VAllocPoint \/ VConstrain
    \/ ProveCompact \/ ProveBatchable \/ Tamper
    \/ VerifyCompact \/ VerifyBatchable

Spec == Init /\ [][Next]_vars

\* sessions whose verifier is given what the prover used, the witness honest
\* or not, the proof verified as it was made or with one element replaced
InitMatching ==
    /\ pin \in ProverInputs
               \cup {Input(TwiceShape, a, "App", "m1") : a \in Assignments(TwiceShape)}
    /\ vin = Public(pin)
    /\ SessionStart
SpecMatching == InitMatching /\ [][Next]_vars

\* sessions of an honest prover whose verifier is given something other than
\* what the prover used, in one respect: the value of a point; the domain,
\* message or proof label of the transcript; the order or a label of the
\* allocations. The proof is verified as it was made.
InitPointMismatch ==
    Init /\ Honest(pin) /\ vin \in PointMismatch(Public(pin))
InitTranscriptMismatch ==
    Init /\ Honest(pin) /\ vin \in TranscriptMismatch(Public(pin))
InitAllocationMismatch ==
    Init /\ Honest(pin) /\ vin \in (OrderMismatch(Public(pin)) \cup LabelMismatch(Public(pin)))
NextMismatch ==
    \/ PNew \/ PAllocScalar \/ PAllocPoint \/ PConstrain
    \/ VNew \/ VAllocScalar \/ VAllocPoint \/ VConstrain
    \/ ProveCompact \/ ProveBatchable
    \/ VerifyCompact \/ VerifyBatchable
SpecPointMismatch == InitPointMismatch /\ [][NextMismatch]_vars
SpecTranscriptMismatch == InitTranscriptMismatch /\ [][NextMismatch]_vars
SpecAllocationMismatch == InitAllocationMismatch /\ [][NextMismatch]_vars

\* sessions over the DLEQ statement with its two constraints added in either
\* order
OrderShapes == {DleqShape, DleqSwappedShape}
OrderInputs ==
    UNION {{Input(shape, a, "App", "m1") : a \in Assignments(shape)} : shape \in OrderShapes}
InitOrder ==
    /\ pin \in OrderInputs
    /\ vin \in VerifierInputs(pin)
    /\ mode \in Modes
    /\ pc = "p_new"
    /\ step = 1
    /\ trans = [p |-> Start(pin), v |-> Start(vin)]
    /\ prover = EmptyCS
    /\ pvars = NoVars
    /\ verifier = EmptyCS
    /\ vvars = NoVars
    /\ proof = NoProof
    /\ wire = NoProof
    /\ oracle = [k \in {} |-> 0]
    /\ result = "none"
    /\ round = 1
    /\ keys = << >>
    /\ NoBatch
SpecOrder == InitOrder /\ [][Next]_vars

\* ------------------------------------------------------- signature chain
\* counterparty_signature_chain: two parties, each with one long-lived
\* transcript, sign in turn; the other verifies on its own transcript.
MaxRounds == 2

\* PublicKey::from(&SecretKey) and the assignments KeyPair::sign passes
SigAssign(sk) == [x |-> sk, A |-> PointMul(generator, sk), B |-> generator]
\* the message signed in round k
ChainMessage(k) == IF k % 2 = 1 THEN "m1" ELSE "m2"
Signer(k) == IF k % 2 = 1 THEN 1 ELSE 2

\* the two parties' secret keys, each drawn on its own: any two scalars,
\* equal ones included
ChainKeys == Scalars \X Scalars

InitChain ==
    /\ keys \in ChainKeys
    /\ round = 1
    /\ pin = Input(SigShape, SigAssign(keys[1]), "App", ChainMessage(1))
    /\ \E m \in Messages : vin = [Public(pin) EXCEPT !.msg = m]
    /\ mode = "batchable"
    /\ pc = "p_new"
    /\ step = 1
    /\ trans = [p |-> Start(pin), v |-> Start(vin)]
    /\ prover = EmptyCS
    /\ pvars = NoVars
    /\ verifier = EmptyCS
    /\ vvars = NoVars
    /\ proof = NoProof
    /\ wire = NoProof
    /\ oracle = [k \in {} |-> 0]
    /\ result = "none"
    /\ NoBatch

\* The party that verified signs the next message on its own transcript, and
\* the other party verifies on the transcript it signed with. Every later
\* transcript extends this one, so no later squeeze asks for a challenge of
\* the finished rounds: the oracle keeps none of them.
NextRound ==
    /\ pc = "done"
    /\ result = "Ok"
    /\ trans.p = trans.v
    /\ round < MaxRounds
    /\ round' = round + 1
    /\ pin' = Input(SigShape, SigAssign(keys[Signer(round')]), "App", ChainMessage(round'))
    /\ \E m \in Messages : vin' = [Public(pin') EXCEPT !.msg = m]
    /\ trans' = [p |-> append_message(trans.v, "msg", pin'.msg),
                 v |-> append_message(trans.p, "msg", vin'.msg)]
    /\ pc' = "p_new"
    /\ step' = 1
    /\ pvars' = NoVars
    /\ vvars' = NoVars
    /\ proof' = NoProof
    /\ wire' = NoProof
    /\ result' = "none"
    /\ oracle' = [k \in {} |-> 0]
    /\ UNCHANGED <<keys, mode, prover, verifier, batchVars, otherVars>>

NextChain ==
    \/ PNew \/ PAllocScalar \/ PAllocPoint \/ PConstrain
    \/ VNew \/ VAllocScalar \/ VAllocPoint \/ VConstrain
    \/ ProveBatchable \/ VerifyBatchable \/ NextRound

SpecChain == InitChain /\ [][NextChain]_vars

\* ---------------------------------------------------------- macro drivers
\* The driver functions of a declared statement: instantiate the constraint
\* system, allocate the variables in declaration order, replay the
\* constraints. Drive gives the constraint system and the handles after n
\* steps.
RECURSIVE DriveProver(_, _, _)
DriveProver(in, t, n) ==
    IF n = 0 THEN [cs |-> ProverNew(in.proof_label, t), hv |-> NoVars]
    ELSE LET prev == DriveProver(in, t, n - 1)
         IN IF n <= Len(in.allocs)
            THEN LET a == in.allocs[n]
                     out == IF a.kind = "scalar"
                            THEN allocate_scalar(prev.cs, a.label, a.val)
                            ELSE allocate_point(prev.cs, a.label, a.val)
                 IN [cs |-> out.self, hv |-> prev.hv @@ (a.id :> out.var)]
            ELSE LET con == Handles(prev.hv, in.cons[n - Len(in.allocs)])
                 IN [cs |-> constrain(prev.cs, con[1], con[2]), hv |-> prev.hv]

RECURSIVE DriveVerifier(_, _, _)
DriveVerifier(in, t, n) ==
    IF n = 0 THEN [cs |-> VerifierNew(in.proof_label, t), hv |-> NoVars]
    ELSE LET prev == DriveVerifier(in, t, n - 1)
         IN IF n <= Len(in.allocs)
            THEN LET a == in.allocs[n]
                     out == IF a.kind = "scalar"
                            THEN v_allocate_scalar(prev.cs, a.label)
                            ELSE v_allocate_point(prev.cs, a.label, a.val)
                 IN [cs |-> out.self, hv |-> prev.hv @@ (a.id :> out.var)]
            ELSE LET con == Handles(prev.hv, in.cons[n - Len(in.allocs)])
                 IN [cs |-> v_constrain(prev.cs, con[1], con[2]), hv |-> prev.hv]

\* S::prove_batchable(&mut transcript, assignments)
macro_prover(in, t) == DriveProver(in, t, Total(in)).cs
\* S::verify_batchable(&proof, &mut transcript, assignments)
macro_verifier(in, t) == DriveVerifier(in, t, Total(in)).cs

\* ---------------------------------------------------------- batch verifier
BatchSize == 2

\* util::rand_scalar: the bytes the RNG filled the 64-byte buffer with, as a
\* number, reduced modulo the group order
WideBytes == 0 .. (Order * Order - 1)
rand_scalar(buf) == buf % Order
\* the weights batch verification can draw
BatchWeights == {rand_scalar(buf) : buf \in WideBytes}

\* handles of a BatchVerifier's points
StaticVar(k) == <<"Static", k>>
InstanceVar(k) == <<"Instance", k>>

BatchVerifierNew(proof_label, batch_size, transcripts) ==
    [batch_size |-> batch_size,
     transcripts |-> [j \in 1 .. Len(transcripts) |-> domain_sep(transcripts[j], proof_label)],
     num_scalars |-> 0,
     static_points |-> << >>, static_point_labels |-> << >>,
     instance_points |-> << >>, instance_point_labels |-> << >>,
     constraints |-> << >>]

b_allocate_scalar(self, label) ==
    [self |-> [self EXCEPT
                 !.transcripts = [j \in 1 .. Len(@) |-> append_scalar_var(@[j], label)],
                 !.num_scalars = @ + 1],
     var |-> self.num_scalars]

\* one value, appended to every instance transcript
b_allocate_static_point(self, label, assignment) ==
    [self |-> [self EXCEPT
                 !.transcripts = [j \in 1 .. Len(@) |-> append_point_var(@[j], label, assignment)],
                 !.static_points = Append(@, assignment),
                 !.static_point_labels = Append(@, label)],
     var |-> StaticVar(Len(self.static_points))]

\* allocate_instance_point that rejects only a vector that is too short
b_allocate_instance_point_short_only(self, label, assignments) ==
    IF Len(assignments) < self.batch_size
    THEN [err |-> "LengthMismatch", self |-> self, var |-> InstanceVar(0)]
    ELSE [err |-> "none",
          self |-> [self EXCEPT
                      !.transcripts = [j \in 1 .. Len(@) |->
                                         append_point_var(@[j], label, assignments[j])],
                      !.instance_points = Append(@, assignments),
                      !.instance_point_labels = Append(@, label)],
          var |-> InstanceVar(Len(self.instance_points))]

\* allocate_instance_point that appends the first instance's value to every
\* transcript
b_allocate_instance_point_merging(self, label, assignments) ==
    IF Len(assignments) # self.batch_size
    THEN [err |-> "LengthMismatch", self |-> self, var |-> InstanceVar(0)]
    ELSE [err |-> "none",
          self |-> [self EXCEPT
                      !.transcripts = [j \in 1 .. Len(@) |->
                                         append_point_var(@[j], label, assignments[1])],
                      !.instance_points = Append(@, assignments),
                      !.instance_point_labels = Append(@, label)],
          var |-> InstanceVar(Len(self.instance_points))]

\* the j-th value appended to the j-th transcript
b_allocate_instance_point(self, label, assignments) ==
    IF Len(assignments) # self.batch_size
    THEN [err |-> "LengthMismatch", self |-> self, var |-> InstanceVar(0)]
    ELSE [err |-> "none",
          self |-> [self EXCEPT
                      !.transcripts = [j \in 1 .. Len(@) |->
                                         append_point_var(@[j], label, assignments[j])],
                      !.instance_points = Append(@, assignments),
                      !.instance_point_labels = Append(@, label)],
          var |-> InstanceVar(Len(self.instance_points))]

b_constrain(self, lhs, linear_combination) ==
    [self EXCEPT !.constraints = Append(@, <<lhs, linear_combination>>)]

\* the value of a point variable in instance j, and its label
BatchPoint(self, var, j) ==
    IF var[1] = "Static" THEN self.static_points[var[2] + 1]
    ELSE self.instance_points[var[2] + 1][j]
BatchLabel(self, var) ==
    IF var[1] = "Static" THEN self.static_point_labels[var[2] + 1]
    ELSE self.instance_point_labels[var[2] + 1]

\* step 1 for instance j over the first n constraints: the transcript
RECURSIVE BatchAbsorbLoop(_, _, _, _)
BatchAbsorbLoop(self, prf, j, n) ==
    IF n = 0 THEN self.transcripts[j]
    ELSE append_blinding_commitment(BatchAbsorbLoop(self, prf, j, n - 1),
                                    BatchLabel(self, self.constraints[n][1]),
                                    prf.commitments[n])

\* sum of r_k * Q_jik over a rhs
RECURSIVE BatchLinComb(_, _, _, _)
BatchLinComb(self, j, responses, rhs_lc) ==
    IF rhs_lc = << >> THEN identity
    ELSE PointAdd(BatchLinComb(self, j, responses, Tail(rhs_lc)),
                  PointMul(BatchPoint(self, Head(rhs_lc)[2], j), responses[Head(rhs_lc)[1] + 1]))

\* sum of r_jk * Q_jik - T_ji - c_j * P_ji
Residual(self, prf, c, j, i) ==
    LET con == self.constraints[i]
    IN PointSub(PointSub(BatchLinComb(self, j, prf.responses, con[2]), prf.commitments[i]),
                PointMul(BatchPoint(self, con[1], j), c))

BatchKey(self, prf, j) ==
    Squeezed(BatchAbsorbLoop(self, prf, j, Len(self.constraints)), "chal")

\* step 1: the challenge of every instance, squeezed from its own transcript
BatchChallenges(self, proofs, H) ==
    [j \in 1 .. self.batch_size |-> H[BatchKey(self, proofs[j], j)]]
BatchTranscripts(self, proofs) ==
    [j \in 1 .. self.batch_size |-> BatchKey(self, proofs[j], j)]

\* the terms of the aggregated equations, by instance and constraint
Residuals(self, proofs, cs) ==
    [j \in 1 .. self.batch_size |->
        [i \in 1 .. Len(self.constraints) |-> Residual(self, proofs[j], cs[j], j, i)]]

\* the aggregated equation of constraint i over the first n instances
RECURSIVE Aggregate(_, _, _, _)
Aggregate(D, alphas, i, n) ==
    IF n = 0 THEN identity
    ELSE PointAdd(Aggregate(D, alphas, i, n - 1), PointMul(D[n][i], alphas[n]))

\* steps 3 and 4: every aggregated equation holds
BatchAccepts(D, alphas) ==
    \A i \in 1 .. Len(D[1]) : Aggregate(D, alphas, i, Len(D)) = identity

\* the values the aggregated equations can have once the weights of the
\* first n instances are drawn, one weight after the other
RECURSIVE Aggregates(_, _)
Aggregates(D, n) ==
    IF n = 0 THEN {[i \in 1 .. Len(D[1]) |-> identity]}
    ELSE {[i \in 1 .. Len(D[1]) |-> PointAdd(prev[i], PointMul(D[n][i], alpha))] :
            prev \in Aggregates(D, n - 1), alpha \in BatchWeights}
\* what steps 3 and 4 can answer over every draw of the weights
BatchOutcomes(D) ==
    {\A i \in 1 .. Len(D[1]) : agg[i] = identity : agg \in Aggregates(D, Len(D))}

batch_verify(self, proofs, H, alphas) ==
    LET D == Residuals(self, proofs, BatchChallenges(self, proofs, H))
    IN [result |-> IF BatchAccepts(D, alphas) THEN "Ok" ELSE "VerificationFailure",
        transcripts |-> BatchTranscripts(self, proofs)]

\* ------------------------------------------------------------ batch driver
\* define_proof! {dleq, "DLEQ Example Proof", (x), (A, B, H), (G) :
\*                A = (x * G), B = (x * H) }
BatchDleqShape ==
    [proof_label |-> "DLEQ",
     allocs |-> <<Scalar("x"), Point("A"), Point("B"), Point("H"), Point("G")>>,
     cons |-> << <<"A", << <<"x", "G">> >> >>, <<"B", << <<"x", "H">> >> >> >>,
     statics |-> {"G"}]

\* instance j of create_batch_and_batch_verify: its secret, its hashed point
XOf(j) == j % Order
HOf(j) == PointMul(generator, 1 + (j % (Order - 1)))
BatchAssign(j) ==
    [x |-> XOf(j), G |-> generator, H |-> HOf(j),
     A |-> PointMul(generator, XOf(j)), B |-> PointMul(HOf(j), XOf(j))]
InstanceInput(j) == Input(BatchDleqShape, BatchAssign(j), "App", "none")

\* S::BatchVerifyAssignments: static points as single values, instance points
\* as sequences of one value per instance
BatchAllocs(shape, ins) ==
    [i \in 1 .. Len(shape.allocs) |->
        LET a == shape.allocs[i]
        IN IF a.kind = "scalar" THEN [kind |-> "scalar", id |-> a.id, label |-> a.label, val |-> 0]
           ELSE IF a.id \in shape.statics
           THEN [kind |-> "static", id |-> a.id, label |-> a.label, val |-> ins[1].allocs[i].val]
           ELSE [kind |-> "instance", id |-> a.id, label |-> a.label,
                 val |-> [j \in 1 .. Len(ins) |-> ins[j].allocs[i].val]]]

\* the points of the instances in bad are not the prover's: B_j + G for B_j
Replace(in, id, delta) ==
    [in EXCEPT !.allocs = [i \in 1 .. Len(@) |->
        IF @[i].id = id THEN [@[i] EXCEPT !.val = PointAdd(@, delta)] ELSE @[i]]]
InstanceIdx(in) == {i \in 1 .. Len(in.allocs) : in.allocs[i].kind = "instance"}
\* every instance is given the prover's points, or all but one are
BadSets == {S \in SUBSET (1 .. BatchSize) : Cardinality(S) <= 1}
BatchCase(bad) ==
    LET pins == [j \in 1 .. BatchSize |-> InstanceInput(j)]
        vins == [j \in 1 .. BatchSize |->
                   IF j \in bad THEN Replace(Public(pins[j]), "B", generator)
                   ELSE Public(pins[j])]
    IN [proof_label |-> BatchDleqShape.proof_label, n |-> BatchSize,
        pins |-> pins, vins |-> vins,
        allocs |-> BatchAllocs(BatchDleqShape, vins), cons |-> BatchDleqShape.cons]

\* every instance starts from a transcript of its own
BatchStart(j) == TranscriptNew("App")

InitBatch ==
    /\ \E bad \in BadSets : bin = BatchCase(bad)
    /\ batch = << >>
    /\ bvars = NoVars
    /\ bproofs = << >>
    /\ each = << >>
    /\ pc = "b_new"
    /\ step = 1
    /\ oracle = [k \in {} |-> 0]
    /\ result = "none"
    /\ pin = << >> /\ vin = << >> /\ mode = "batchable" /\ trans = << >>
    /\ prover = EmptyCS /\ pvars = NoVars /\ verifier = EmptyCS /\ vvars = NoVars
    /\ proof = NoProof /\ wire = NoProof
    /\ round = 1 /\ keys = << >>
    /\ NoOther

BNew ==
    /\ pc = "b_new"
    /\ batch' = BatchVerifierNew(bin.proof_label, bin.n, [j \in 1 .. bin.n |-> BatchStart(j)])
    /\ pc' = "batch"
    /\ step' = 1
    /\ UNCHANGED <<bin, bvars, bproofs, each, oracle, result, sessionVars, chainVars, otherVars>>

BAllocScalar ==
    /\ pc = "batch"
    /\ step <= Len(bin.allocs)
    /\ bin.allocs[step].kind = "scalar"
    /\ LET a == bin.allocs[step]
           out == b_allocate_scalar(batch, a.label)
       IN /\ batch' = out.self
          /\ bvars' = bvars @@ (a.id :> out.var)
    /\ step' = step + 1
    /\ UNCHANGED <<bin, bproofs, each, pc, oracle, result, sessionVars, chainVars, otherVars>>

BAllocStatic ==
    /\ pc = "batch"
    /\ step <= Len(bin.allocs)
    /\ bin.allocs[step].kind = "static"
    /\ LET a == bin.allocs[step]
           out == b_allocate_static_point(batch, a.label, a.val)
       IN /\ batch' = out.self
          /\ bvars' = bvars @@ (a.id :> out.var)
    /\ step' = step + 1
    /\ UNCHANGED <<bin, bproofs, each, pc, oracle, result, sessionVars, chainVars, otherVars>>

BAllocInstance ==
    /\ pc = "batch"
    /\ step <= Len(bin.allocs)
    /\ bin.allocs[step].kind = "instance"
    /\ LET a == bin.allocs[step]
           out == b_allocate_instance_point(batch, a.label, a.val)
       IN IF out.err = "none"
          THEN /\ batch' = out.self
               /\ bvars' = bvars @@ (a.id :> out.var)
               /\ step' = step + 1
               /\ UNCHANGED <<pc, result>>
          ELSE /\ result' = out.err
               /\ pc' = "done"
               /\ UNCHANGED <<batch, bvars, step>>
    /\ UNCHANGED <<bin, bproofs, each, oracle, sessionVars, chainVars, otherVars>>

BConstrain ==
    /\ pc = "batch"
    /\ step > Len(bin.allocs)
    /\ step <= Total(bin)
    /\ LET con == Handles(bvars, bin.cons[step - Len(bin.allocs)])
       IN batch' = b_constrain(batch, con[1], con[2])
    /\ step' = step + 1
    /\ UNCHANGED <<bin, bvars, bproofs, each, pc, oracle, result, sessionVars, chainVars, otherVars>>

\* o extended by a challenge for every transcript of ks not yet squeezed
OracleExtAll(o, ks) == {o @@ f : f \in [ks \ DOMAIN o -> Scalars]}

\* the blindings a prover of the batch draws: one scalar, any scalar, for
\* every witness scalar
BatchBlindings(self) == [1 .. Len(self.scalars) -> Scalars]

\* Every prover makes its proof with prove_batchable on its own transcript.
BProve ==
    /\ pc = "batch"
    /\ step > Total(bin)
    /\ LET P == [j \in 1 .. bin.n |-> macro_prover(bin.pins[j], BatchStart(j))]
       IN \E b \in [1 .. bin.n -> BatchBlindings(P[1])] :
          \E H \in OracleExtAll(oracle, {ProverKey(P[j], b[j]) : j \in 1 .. bin.n}) :
            /\ bproofs' = [j \in 1 .. bin.n |-> prove_batchable(P[j], b[j], H).proof]
            /\ oracle' = H
    /\ pc' = "b_proved"
    /\ UNCHANGED <<bin, batch, bvars, each, step, result, sessionVars, chainVars, otherVars>>

\* Each proof is verified on its own with verify_batchable, on a transcript
\* of its own and the points batch verification is given for its instance.
EachKey(V, prf) == Squeezed(AbsorbLoop(V, prf, Len(V.constraints)), "chal")
BVerifyEach ==
    /\ pc = "b_proved"
    /\ LET V == [j \in 1 .. bin.n |-> macro_verifier(bin.vins[j], BatchStart(j))]
       IN \E H \in OracleExtAll(oracle, {EachKey(V[j], bproofs[j]) : j \in 1 .. bin.n}) :
            /\ each' = [j \in 1 .. bin.n |-> verify_batchable(V[j], bproofs[j], H).result]
            /\ oracle' = H
    /\ pc' = "b_verify"
    /\ UNCHANGED <<bin, batch, bvars, bproofs, step, result, sessionVars, chainVars, otherVars>>

BatchVerify ==
    /\ pc = "b_verify"
    /\ \E H \in OracleExtAll(oracle, {BatchKey(batch, bproofs[j], j) : j \in 1 .. bin.n}) :
       \E D \in {Residuals(batch, bproofs, BatchChallenges(batch, bproofs, H))} :
       \E ok \in BatchOutcomes(D) :
         /\ result' = IF ok THEN "Ok" ELSE "VerificationFailure"
         /\ batch' = [batch EXCEPT !.transcripts = BatchTranscripts(batch, bproofs)]
         /\ oracle' = H
    /\ pc' = "done"
    /\ UNCHANGED <<bin, bvars, bproofs, each, step, sessionVars, chainVars, otherVars>>

\* the batch driver given one instance point with a value too few or one too
\* many
WrongLength(in) ==
    {[in EXCEPT !.allocs[i].val = SubSeq(@, 1, Len(@) - 1)] : i \in InstanceIdx(in)}
    \cup {[in EXCEPT !.allocs[i].val = Append(@, generator)] : i \in InstanceIdx(in)}

InitBatchAny ==
    /\ \E bad \in BadSets : bin \in {BatchCase(bad)} \cup WrongLength(BatchCase(bad))
    /\ batch = << >>
    /\ bvars = NoVars
    /\ bproofs = << >>
    /\ each = << >>
    /\ pc = "b_new"
    /\ step = 1
    /\ oracle = [k \in {} |-> 0]
    /\ result = "none"
    /\ pin = << >> /\ vin = << >> /\ mode = "batchable" /\ trans = << >>
    /\ prover = EmptyCS /\ pvars = NoVars /\ verifier = EmptyCS /\ vvars = NoVars
    /\ proof = NoProof /\ wire = NoProof
    /\ round = 1 /\ keys = << >>
    /\ NoOther

NextBatch ==
    \/ BNew \/ BAllocScalar \/ BAllocStatic \/ BAllocInstance \/ BConstrain
    \/ BProve \/ BVerifyEach \/ BatchVerify

SpecBatch == InitBatch /\ [][NextBatch]_vars
SpecBatchAny == InitBatchAny /\ [][NextBatch]_vars

\* ------------------------------------------------------- any call sequence
\* A caller that makes any calls it likes on one Prover: it allocates
\* variables, constrains any lhs it holds to any linear combination of the
\* handles it holds, the empty one included, and proves.
MaxCalls == 3
MaxTerms == 1
ApiScalarIds == {"x", "y"}
ApiPointIds == {"A", "B"}
\* the linear combinations over the handles the caller holds
ApiRhs(hv) ==
    LET terms == {<<hv[s], hv[Q]>> : s \in ApiScalarIds \cap DOMAIN hv,
                                     Q \in ApiPointIds \cap DOMAIN hv}
    IN UNION {[1 .. n -> terms] : n \in 0 .. MaxTerms}

InitApi ==
    /\ pc = "api_new"
    /\ step = 0
    /\ trans = [p |-> TranscriptNew("App"), v |-> TranscriptNew("App")]
    /\ prover = EmptyCS
    /\ pvars = NoVars
    /\ proof = NoProof
    /\ wire = NoProof
    /\ oracle = [k \in {} |-> 0]
    /\ result = "none"
    /\ pin = << >> /\ vin = << >> /\ mode = "compact"
    /\ verifier = EmptyCS /\ vvars = NoVars
    /\ round = 1 /\ keys = << >>
    /\ NoBatch

ApiNew ==
    /\ pc = "api_new"
    /\ prover' = ProverNew("Api", trans.p)
    /\ pc' = "api"
    /\ UNCHANGED <<otherVars, chainVars, batchVars, pin, vin, mode, step, trans, pvars,
                   verifier, vvars, proof, wire, oracle, result>>

ApiAllocScalar ==
    /\ pc = "api"
    /\ step < MaxCalls
    /\ \E id \in ApiScalarIds \ DOMAIN pvars : \E x \in Scalars :
         LET out == allocate_scalar(prover, id, x)
         IN /\ prover' = out.self
            /\ pvars' = pvars @@ (id :> out.var)
    /\ step' = step + 1
    /\ UNCHANGED <<otherVars, chainVars, batchVars, pin, vin, mode, pc, trans,
                   verifier, vvars, proof, wire, oracle, result>>

ApiAllocPoint ==
    /\ pc = "api"
    /\ step < MaxCalls
    /\ \E id \in ApiPointIds \ DOMAIN pvars : \E P \in Points :
         LET out == allocate_point(prover, id, P)
         IN /\ prover' = out.self
            /\ pvars' = pvars @@ (id :> out.var)
    /\ step' = step + 1
    /\ UNCHANGED <<otherVars, chainVars, batchVars, pin, vin, mode, pc, trans,
                   verifier, vvars, proof, wire, oracle, result>>

ApiConstrain ==
    /\ pc = "api"
    /\ step < MaxCalls
    /\ \E lhs \in ApiPointIds \cap DOMAIN pvars : \E rhs \in ApiRhs(pvars) :
         prover' = constrain(prover, pvars[lhs], rhs)
    /\ step' = step + 1
    /\ UNCHANGED <<otherVars, chainVars, batchVars, pin, vin, mode, pc, trans, pvars,
                   verifier, vvars, proof, wire, oracle, result>>

ApiProve ==
    /\ pc = "api"
    /\ \E b \in Blindings(prover) : \E H \in OracleExt(oracle, ProverKey(prover, b)) :
         LET out == prove_compact(prover, b, H)
         IN /\ proof' = out.proof
            /\ trans' = [trans EXCEPT !.p = out.transcript]
            /\ oracle' = H
    /\ pc' = "done"
    /\ UNCHANGED <<otherVars, chainVars, batchVars, pin, vin, mode, step, prover, pvars,
                   verifier, vvars, wire, result>>

NextApi == ApiNew \/ ApiAllocScalar \/ ApiAllocPoint \/ ApiConstrain \/ ApiProve
SpecApi == InitApi /\ [][NextApi]_vars

\* ------------------------------------------------------------------ Matrix
\* util::Matrix<T> with T an integer type: Default::default() is 0
MaxDim == 2
MatrixValues == 0 .. 2

MatrixNew(rows, cols) ==
    [rows |-> rows, cols |-> cols, entries |-> [k \in 1 .. rows * cols |-> 0]]

\* index reading the entries column by column
index_column_major(self, r, c) == self.entries[self.rows * c + r + 1]

index(self, r, c) == self.entries[self.cols * r + c + 1]

\* *index_mut((r, c)) = v
index_mut(self, r, c, v) == [self EXCEPT !.entries[self.cols * r + c + 1] = v]

row_major_entries(self) == self.entries

InitMatrix ==
    /\ matrix = << >>
    /\ pc = "m_new"
    /\ bufs = << >> /\ weights = << >> /\ rng = [k \in {} |-> << >>] /\ runs = << >>
    /\ bin = << >> /\ batch = << >> /\ bvars = NoVars /\ bproofs = << >> /\ each = << >>
    /\ step = 1
    /\ oracle = [k \in {} |-> 0]
    /\ result = "none"
    /\ pin = << >> /\ vin = << >> /\ mode = "compact" /\ trans = << >>
    /\ prover = EmptyCS /\ pvars = NoVars /\ verifier = EmptyCS /\ vvars = NoVars
    /\ proof = NoProof /\ wire = NoProof
    /\ round = 1 /\ keys = << >>

MatrixCreate ==
    /\ pc = "m_new"
    /\ \E rows \in 0 .. MaxDim : \E cols \in 0 .. MaxDim :
         matrix' = MatrixNew(rows, cols)
    /\ pc' = "m_created"
    /\ UNCHANGED <<bufs, weights, rng, runs, step, oracle, result, sessionVars, chainVars, batchVars>>

\* a write through index_mut that does not panic: the entry it addresses
\* exists
MatrixWriteAt(r, c, v) ==
    /\ pc \in {"m_created", "m_written"}
    /\ matrix.cols * r + c < Len(matrix.entries)
    /\ matrix' = index_mut(matrix, r, c, v)
    /\ pc' = "m_written"
    /\ UNCHANGED <<bufs, weights, rng, runs, step, oracle, result, sessionVars, chainVars, batchVars>>

MatrixWrite ==
    \E r \in 0 .. MaxDim : \E c \in 0 .. MaxDim : \E v \in MatrixValues :
        MatrixWriteAt(r, c, v)

NextMatrix == MatrixCreate \/ MatrixWrite
SpecMatrix == InitMatrix /\ [][NextMatrix]_vars

\* -------------------------------------------------------- repeated proving
\* One statement over the variables of sig_proof is proved several times, on
\* the same transcript and the same points, with any witness and equation
\* that hold for these points, and with one external entropy or another.
MaxRuns == 3
Entropy == {0, 1}
\* the witnesses the statement is proved with
RngWitnesses == {1, 2}
\* the variables of sig_proof under A = x * B, or under A = x * A
RngShapes == {SigShape, [SigShape EXCEPT !.cons = << <<"A", << <<"x", "A">> >> >> >>]}
\* the points KeyPair::sign passes for a secret key: the public key and the
\* generator
RngSignPoints == {[A |-> SigAssign(x).A, B |-> SigAssign(x).B] : x \in RngWitnesses}
\* these, or the identity for both points, which every witness satisfies
RngPoints == RngSignPoints \cup {[A |-> identity, B |-> identity]}
\* the inputs with these points whose witness satisfies the equation
RngInputs(points) ==
    {in \in {Input(shape, [x |-> x] @@ points, "App", "m1") :
                shape \in RngShapes, x \in RngWitnesses} : Honest(in)}

\* a transcript RNG that also carries over how many proofs were made before
TranscriptRngSeedCounting(self, entropy) ==
    <<self.transcript, self.scalars, entropy, Cardinality(runs)>>

\* what the transcript RNG of prove_impl is made from: the transcript, every
\* witness scalar in allocation order, and the external entropy
TranscriptRngSeed(self, entropy) == <<self.transcript, self.scalars, entropy>>
\* the ways the RNG answers: as before for a seed it was made from before
RngExt(o, seed, n) ==
    IF seed \in DOMAIN o THEN {o} ELSE {o @@ (seed :> b) : b \in [1 .. n -> Scalars]}

InitRng ==
    /\ runs = {}
    /\ rng = [k \in {} |-> << >>]
    /\ bufs = << >> /\ weights = << >> /\ matrix = << >>
    /\ bin = << >> /\ batch = << >> /\ bvars = NoVars /\ bproofs = << >> /\ each = << >>
    /\ pc = "proving"
    /\ step = 1
    /\ oracle = [k \in {} |-> 0]
    /\ result = "none"
    /\ pin \in RngPoints
    /\ vin = << >> /\ mode = "compact" /\ trans = << >>
    /\ prover = EmptyCS /\ pvars = NoVars /\ verifier = EmptyCS /\ vvars = NoVars
    /\ proof = NoProof /\ wire = NoProof
    /\ round = 1 /\ keys = << >>

RngProve ==
    /\ pc = "proving"
    /\ Cardinality(runs) < MaxRuns
    /\ \E in \in RngInputs(pin) : \E e \in Entropy :
         LET self == macro_prover(in, Start(in))
             seed == TranscriptRngSeed(self, e)
         IN \E R \in RngExt(rng, seed, Len(self.scalars)) :
            \E H \in OracleExt(oracle, ProverKey(self, R[seed])) :
              /\ runs' = runs \cup {[self |-> self, entropy |-> e, blindings |-> R[seed],
                                     proof |-> prove_compact(self, R[seed], H).proof]}
              /\ rng' = R
              /\ oracle' = H
    /\ UNCHANGED <<pc, bufs, weights, matrix, step, result, sessionVars, chainVars, batchVars>>

NextRng == RngProve
SpecRng == InitRng /\ [][NextRng]_vars

\* ---------------------------------------------------------- weight sampler
\* The weights of one batch, drawn one after the other by rand_scalar from
\* whatever the RNG puts into the buffer.
InitSampler ==
    /\ bufs \in [1 .. BatchSize -> WideBytes]
    /\ weights = << >>
    /\ rng = [k \in {} |-> << >>]
    /\ runs = << >>
    /\ matrix = << >>
    /\ bin = << >> /\ batch = << >> /\ bvars = NoVars /\ bproofs = << >> /\ each = << >>
    /\ pc = "sampling"
    /\ step = 1
    /\ oracle = [k \in {} |-> 0]
    /\ result = "none"
    /\ pin = << >> /\ vin = << >> /\ mode = "batchable" /\ trans = << >>
    /\ prover = EmptyCS /\ pvars = NoVars /\ verifier = EmptyCS /\ vvars = NoVars
    /\ proof = NoProof /\ wire = NoProof
    /\ round = 1 /\ keys = << >>

SampleWeight ==
    /\ pc = "sampling"
    /\ step <= BatchSize
    /\ weights' = Append(weights, rand_scalar(bufs[step]))
    /\ step' = step + 1
    /\ UNCHANGED <<pc, bufs, rng, runs, matrix, oracle, result, sessionVars, chainVars, batchVars>>

NextSampler == SampleWeight
SpecSampler == InitSampler /\ [][NextSampler]_vars

\* ------------------------------------------------------- both encodings
\* One run of prove_impl gives the challenge, the responses and the
\* commitments; the compact proof and the batchable proof are the two ways
\* to store them. Both are verified from the same verifier state.
CompactOf(p) == [challenge |-> p.challenge, responses |-> p.responses]
BatchableOf(p) == [commitments |-> p.commitments, responses |-> p.responses]

InitBoth ==
    /\ pin \in ProverInputs
    /\ vin \in VerifierInputs(pin)
    /\ mode = "both"
    /\ pc = "p_new"
    /\ step = 1
    /\ trans = [p |-> Start(pin), v |-> Start(vin)]
    /\ prover = EmptyCS
    /\ pvars = NoVars
    /\ verifier = EmptyCS
    /\ vvars = NoVars
    /\ proof = NoProof
    /\ wire = NoProof
    /\ oracle = [k \in {} |-> 0]
    /\ result = "none"
    /\ round = 1
    /\ keys = << >>
    /\ NoBatch

ProveBoth ==
    /\ pc = "verifier"
    /\ step > Total(vin)
    /\ mode = "both"
    /\ \E b \in Blindings(prover) : \E H \in OracleExt(oracle, ProverKey(prover, b)) :
         LET out == prove_impl(prover, b, H)
         IN /\ proof' = [challenge |-> out.challenge, responses |-> out.responses,
                         commitments |-> out.commitments]
            /\ wire' = proof'
            /\ trans' = [trans EXCEPT !.p = out.transcript]
            /\ oracle' = H
    /\ pc' = "proved"
    /\ UNCHANGED <<otherVars, chainVars, batchVars, pin, vin, mode, step, prover, pvars, verifier, vvars, result>>

\* the transcripts the two verifications squeeze their challenges from
CompactKey(self, p) == Squeezed(RecomputeLoop(self, p, Len(self.constraints)), "chal")
BatchableKey(self, p) == Squeezed(AbsorbLoop(self, p, Len(self.constraints)), "chal")

VerifyBoth ==
    /\ pc = "proved"
    /\ mode = "both"
    /\ \E H \in OracleExtAll(oracle, {CompactKey(verifier, CompactOf(wire)),
                                      BatchableKey(verifier, BatchableOf(wire))}) :
         /\ result' = [compact |-> verify_compact(verifier, CompactOf(wire), H).result,
                       batchable |-> verify_batchable(verifier, BatchableOf(wire), H).result]
         /\ trans' = [trans EXCEPT !.v = verify_batchable(verifier, BatchableOf(wire), H).transcript]
         /\ oracle' = H
    /\ pc' = "done"
    /\ UNCHANGED <<otherVars, chainVars, batchVars, pin, vin, mode, step, prover, pvars, verifier, vvars, proof, wire>>

NextBoth ==
    \/ PNew \/ PAllocScalar \/ PAllocPoint \/ PConstrain
    \/ VNew \/ VAllocScalar \/ VAllocPoint \/ VConstrain
    \/ ProveBoth \/ VerifyBoth

SpecBoth == InitBoth /\ [][NextBoth]_vars

\* ----------------------------------------------------------------- claims
Done == pc = "done"
\* the verifier was given what the prover used, and the proof as returned
Matching == vin = Public(pin)
Untampered == wire = proof
\* the challenge the prover squeezed, and the one the verifier squeezed
ProverChallenge == oracle[trans.p]
VerifierChallenge == oracle[trans.v]
\* would the verifier accept the proof it received, were its challenge c
Accepts(c) ==
    IF mode = "compact" THEN CompactAccepts(wire, c)
    ELSE BatchableAccepts(verifier, wire, c)
AcceptingChallenges == {c \in Scalars : Accepts(c)}
SomeLhsNotIdentity ==
    \E i \in 1 .. Len(verifier.constraints) :
        verifier.points[verifier.constraints[i][1] + 1] # identity
\* verification accepts on a transcript other than the prover's, by the
\* value the oracle happens to give it
AcceptsByChance ==
    /\ result = "Ok"
    /\ trans.v # trans.p
    /\ Accepts(VerifierChallenge)
\* at most one challenge value makes the verifier accept, unless the proof
\* is batchable and every lhs point the verifier holds is the identity
AtMostOneChallengeAccepts ==
    (mode = "compact" \/ SomeLhsNotIdentity) => Cardinality(AcceptingChallenges) <= 1
SomeWitnessNotZero ==
    \E i \in 1 .. Len(pin.allocs) : pin.allocs[i].kind = "scalar" /\ pin.allocs[i].val # 0

\* C1: completeness, compact. For an honest witness, with the verifier
\* starting from the same transcript state, the same proof label, the same
\* labels, points, order and constraints, verify_compact of the proof that
\* prove_compact returned is Ok.
C1_CompactCompleteness ==
    (Done /\ mode = "compact" /\ Honest(pin) /\ Matching /\ Untampered) => result = "Ok"
C1_Witness ==
    /\ Done /\ mode = "compact" /\ Honest(pin) /\ Matching /\ Untampered
    /\ result = "Ok" /\ SomeWitnessNotZero /\ ProverChallenge # 0
    /\ Len(prover.constraints) = 2

\* C2: completeness, batchable. For an honest witness, verify_batchable of
\* the proof that prove_batchable returned, with the same transcript start,
\* proof label, labels, points, order and constraints, is Ok.
C2_BatchableCompleteness ==
    (Done /\ mode = "batchable" /\ Honest(pin) /\ Matching /\ Untampered) => result = "Ok"
C2_Witness ==
    /\ Done /\ mode = "batchable" /\ Honest(pin) /\ Matching /\ Untampered
    /\ result = "Ok" /\ SomeWitnessNotZero /\ ProverChallenge # 0
    /\ Len(prover.scalars) = 2 /\ Len(prover.constraints[1][2]) = 2

\* C3 as stated: if the verifier allocates a public point with a value other
\* than the prover's, everything else identical, verifying an honest proof
\* returns VerificationFailure.
C3_Original ==
    (Done /\ Honest(pin) /\ vin \in PointMismatch(Public(pin)))
        => result = "VerificationFailure"
\* C3 amended: with a public point of another value the verifier squeezes its
\* challenge from a transcript that differs from the prover's; verification
\* returns VerificationFailure unless that challenge happens to satisfy the
\* check, and at most one challenge value does (when the proof is compact or
\* some lhs point is not the identity).
C3_PointMismatch ==
    (Done /\ Honest(pin) /\ vin \in PointMismatch(Public(pin)))
        => /\ trans.v # trans.p
           /\ result = "VerificationFailure" \/ AcceptsByChance
           /\ AtMostOneChallengeAccepts
C3_Witness ==
    /\ Done /\ Honest(pin) /\ vin \in PointMismatch(Public(pin))
    /\ result = "VerificationFailure" /\ SomeWitnessNotZero

\* C4 as stated: if the verifier's transcript differs from the prover's
\* before verification starts (transcript domain label, proof label or a
\* message absorbed beforehand), points and constraints identical,
\* verification of an honest proof fails.
C4_Original ==
    (Done /\ Honest(pin) /\ vin \in TranscriptMismatch(Public(pin)))
        => result = "VerificationFailure"
\* C4 amended: the verifier then squeezes its challenge from a transcript
\* that differs from the prover's, and verification fails unless that
\* challenge happens to satisfy the check (at most one value does), or the
\* proof is batchable and every lhs point is the identity, in which case it
\* verifies under any transcript.
C4_TranscriptMismatch ==
    (Done /\ Honest(pin) /\ vin \in TranscriptMismatch(Public(pin)))
        => /\ trans.v # trans.p
           /\ result = "VerificationFailure" \/ AcceptsByChance
           /\ AtMostOneChallengeAccepts
           /\ (mode = "batchable" /\ ~SomeLhsNotIdentity) => result = "Ok"
C4_Witness ==
    /\ Done /\ Honest(pin) /\ vin \in TranscriptMismatch(Public(pin))
    /\ mode = "batchable" /\ ~SomeLhsNotIdentity /\ result = "Ok"
    /\ VerifierChallenge # ProverChallenge

\* C5 as stated: if the verifier allocates the same variables in a different
\* order, or under different labels, verification of the honest proof fails.
C5_Original ==
    (Done /\ Honest(pin)
          /\ vin \in (OrderMismatch(Public(pin)) \cup LabelMismatch(Public(pin))))
        => result = "VerificationFailure"
\* C5 amended: with another allocation order or another label the verifier
\* squeezes its challenge from a transcript that differs from the prover's,
\* and verification fails unless that challenge happens to satisfy the check;
\* at most one challenge value does (when the proof is compact or some lhs
\* point is not the identity).
C5_AllocationMismatch ==
    (Done /\ Honest(pin)
          /\ vin \in (OrderMismatch(Public(pin)) \cup LabelMismatch(Public(pin))))
        => /\ trans.v # trans.p
           /\ result = "VerificationFailure" \/ AcceptsByChance
           /\ AtMostOneChallengeAccepts
C5_Witness ==
    /\ Done /\ Honest(pin) /\ vin \in OrderMismatch(Public(pin))
    /\ result = "VerificationFailure" /\ SomeWitnessNotZero
    /\ verifier.points # prover.points

\* the scalars (as indices of the response vector) whose points in some
\* constraint do not sum to the identity: the sum of that constraint moves
\* when the response of such a scalar does
UsedScalars ==
    {s \in 1 .. Len(proof.responses) :
        \E i \in 1 .. Len(verifier.constraints) :
            LinComb(verifier.points,
                    [j \in 1 .. Len(proof.responses) |-> IF j = s THEN 1 ELSE 0],
                    verifier.constraints[i][2]) # identity}
\* the element replaced in flight is the response of a scalar that no
\* constraint uses, or uses with points that sum to the identity
OnlyUnusedReplaced ==
    /\ \A f \in DOMAIN proof \ {"responses"} : wire[f] = proof[f]
    /\ \A i \in UsedScalars : wire.responses[i] = proof.responses[i]

\* C6 as stated: replacing any single element of a valid proof (challenge,
\* one response or one commitment) by another value yields a proof that
\* verification rejects with VerificationFailure.
C6_Original ==
    (Done /\ Honest(pin) /\ Matching /\ ~Untampered) => result = "VerificationFailure"
\* C6 amended: the proof with one element replaced is rejected, unless the
\* element is the response of a scalar whose points sum to the identity in
\* every constraint (no constraint uses it, every point it is multiplied
\* with is the identity, or those points cancel: the response changes no sum
\* that verification computes, and the proof is accepted), or the verifier's
\* transcript comes to differ from the prover's and the challenge squeezed
\* from it happens to satisfy the check; at most one challenge value does.
C6_ReplacedElement ==
    (Done /\ Honest(pin) /\ Matching /\ ~Untampered)
        => /\ OnlyUnusedReplaced => result = "Ok"
           /\ ~OnlyUnusedReplaced => (result = "VerificationFailure" \/ AcceptsByChance)
           /\ AtMostOneChallengeAccepts
\* a replaced response of a scalar multiplied with the generator, rejected on
\* the prover's transcript
C6_Witness ==
    /\ Done /\ Honest(pin) /\ Matching /\ ~Untampered
    /\ ~OnlyUnusedReplaced /\ result = "VerificationFailure" /\ trans.v = trans.p
    /\ wire.responses # proof.responses
    /\ \A i \in 1 .. Len(verifier.points) : verifier.points[i] # identity

\* C10 as stated: when some lhs differs from the sum over its rhs, prove_*
\* still returns a proof with n_scalars responses (and n_constraints
\* commitments), and that proof fails verification against the same points.
WellFormedProof ==
    pc \in {"proved", "done"}
        => /\ Len(proof.responses) = Len(prover.scalars)
           /\ mode = "batchable" => Len(proof.commitments) = Len(prover.constraints)
C10_Original ==
    /\ WellFormedProof
    /\ (Done /\ ~Honest(pin) /\ Matching /\ Untampered) => result = "VerificationFailure"
\* C10 amended: the prover does not check the witness: prove_* returns a proof
\* with n_scalars responses (and n_constraints commitments) whatever the lhs
\* points are; for a witness that does not satisfy the equations the proof
\* verifies when the challenge is zero, and otherwise fails verification
\* unless, for a compact proof, the challenge squeezed from the verifier's
\* differing transcript happens to equal the proof's.
C10_ProverDoesNotCheck ==
    /\ WellFormedProof
    /\ (Done /\ ~Honest(pin) /\ Matching /\ Untampered)
         => /\ ProverChallenge = 0 => result = "Ok"
            /\ ProverChallenge # 0
                 => (result = "VerificationFailure" \/ (mode = "compact" /\ AcceptsByChance))
C10_Witness ==
    /\ Done /\ ~Honest(pin) /\ Matching /\ Untampered
    /\ Len(proof.responses) = 2 /\ ProverChallenge # 0 /\ result = "VerificationFailure"

\* the verifier absorbed the message the signer signed
InOrder == vin.msg = pin.msg

\* C9 as stated: in the signature chain every verify returns Ok when the
\* verifier processes the messages in the order they were signed, and the
\* next verify fails when it processes them in another order.
C9_Original ==
    Done => /\ InOrder => result = "Ok"
            /\ ~InOrder => result = "VerificationFailure"
\* C9 amended: in the order they were signed every verify returns Ok; with
\* another message the verifier's transcript differs from the signer's and
\* the verify fails, unless the challenge squeezed from it happens to satisfy
\* the check (at most one value does), or the signer's public key is the
\* identity, in which case the signature verifies under any transcript.
C9_Chain ==
    Done => /\ InOrder => result = "Ok"
            /\ ~InOrder => /\ trans.v # trans.p
                           /\ result = "VerificationFailure" \/ AcceptsByChance
                           /\ AtMostOneChallengeAccepts
                           /\ ~SomeLhsNotIdentity => result = "Ok"
C9_Witness ==
    /\ Done /\ round = 2 /\ InOrder /\ result = "Ok"
    /\ keys[1] # 0 /\ keys[2] # 0 /\ ProverChallenge # 0
    /\ Len(trans.p) > 10

\* the proofs that verify_batchable rejected on their own
Invalid == {j \in 1 .. Len(each) : each[j] # "Ok"}

\* C7: batch acceptance. If every proof verifies individually with
\* verify_batchable, on its own transcript and its instance's points, then
\* batch_verify on the N proofs returns Ok, whatever the weights are.
C7_BatchAcceptance ==
    (Done /\ Invalid = {}) => result = "Ok"
C7_Witness ==
    /\ Done /\ Invalid = {} /\ result = "Ok" /\ Len(bproofs) = BatchSize
    /\ \A j \in 1 .. BatchSize : oracle[batch.transcripts[j]] # 0

\* C8: batch rejection. If exactly one of the N proofs fails verification on
\* its own and the others verify, batch_verify does not return Ok.
C8_BatchRejection ==
    (Done /\ Cardinality(Invalid) = 1) => result = "VerificationFailure"

\* the challenges the two verifications squeezed, and the commitments
\* verify_compact recomputed
CompactChallenge == oracle[CompactKey(verifier, CompactOf(wire))]
BatchableChallenge == oracle[BatchableKey(verifier, BatchableOf(wire))]
RecomputedCommitments ==
    [i \in 1 .. Len(verifier.constraints) |->
        Recomputed(verifier, CompactOf(wire), verifier.constraints[i])]

\* the batchable proof corresponds to the compact one: its commitments are
\* T_i = sum r * Q - c * P_lhs over the verifier's points, and c is the
\* challenge derived from them
Corresponding ==
    /\ RecomputedCommitments = wire.commitments
    /\ BatchableChallenge = wire.challenge

\* C11: the compact proof {c, r} and the batchable proof {T, r} of one run of
\* prove, verified from the same verifier state. When the commitments are
\* the corresponding ones, verify_compact accepts if and only if
\* verify_batchable does. Each direction needs one half only: if
\* verify_batchable accepts and the challenge it squeezed is the proof's c
\* (as it is whenever the verifier is given what the prover used),
\* verify_compact accepts; if verify_compact accepts and the commitments it
\* recomputed are the proof's T, verify_batchable accepts. For an honest
\* witness and a verifier given what the prover used, both accept.
C11_Encodings ==
    Done => /\ Corresponding => (result.compact = "Ok" <=> result.batchable = "Ok")
            /\ (result.batchable = "Ok" /\ BatchableChallenge = wire.challenge)
                 => result.compact = "Ok"
            /\ (result.batchable = "Ok" /\ Matching) => result.compact = "Ok"
            /\ (result.compact = "Ok" /\ RecomputedCommitments = wire.commitments)
                 => result.batchable = "Ok"
            /\ (Honest(pin) /\ Matching)
                 => (result.compact = "Ok" /\ result.batchable = "Ok")
C11_Witness ==
    /\ Done /\ Matching /\ Honest(pin) /\ SomeWitnessNotZero /\ Corresponding
    /\ result.compact = "Ok" /\ result.batchable = "Ok"
    /\ wire.challenge # 0 /\ Len(wire.commitments) = 2

\* some instance point of the batch driver's input has not one value per
\* instance
HasWrongLength ==
    \E i \in InstanceIdx(bin) : Len(bin.allocs[i].val) # bin.n
FirstWrongLength ==
    CHOOSE i \in InstanceIdx(bin) :
        /\ Len(bin.allocs[i].val) # bin.n
        /\ \A k \in InstanceIdx(bin) : k < i => Len(bin.allocs[k].val) = bin.n

\* C12: in batch verification over N instances, allocate_instance_point with
\* a vector whose length is not N returns LengthMismatch: the driver stops at
\* that allocation with LengthMismatch, no proof is verified and the result
\* is never Ok; with vectors of length N it never returns LengthMismatch.
C12_LengthMismatch ==
    /\ HasWrongLength
         => /\ result \in {"none", "LengthMismatch"}
            /\ pc \in {"b_new", "batch", "done"}
            /\ step <= FirstWrongLength
            /\ Done => (result = "LengthMismatch" /\ step = FirstWrongLength)
    /\ ~HasWrongLength => result # "LengthMismatch"
C12_Witness ==
    /\ Done /\ HasWrongLength /\ result = "LengthMismatch"
    /\ Len(batch.instance_points) = 1
    /\ Len(bin.allocs[FirstWrongLength].val) = bin.n + 1

\* the prover as the allocations left it, and the constrain calls made so far
AfterAllocs == DriveProver(pin, Start(pin), Len(pin.allocs)).cs
Constrained == pc = "prover" /\ step > Len(pin.allocs)
ConstrainFrame ==
    Constrained
        => /\ prover.transcript = AfterAllocs.transcript
           /\ prover.scalars = AfterAllocs.scalars
           /\ prover.points = AfterAllocs.points
           /\ prover.point_labels = AfterAllocs.point_labels
           /\ prover.constraints
                = [k \in 1 .. (step - 1 - Len(pin.allocs)) |-> Handles(pvars, pin.cons[k])]
\* the prover with constraint k left out
Without(self, k) ==
    [self EXCEPT !.constraints =
        SubSeq(@, 1, k - 1) \o SubSeq(@, k + 1, Len(@))]

\* C13 as stated: constrain only appends (lhs, rhs) to the constraint list and
\* leaves the transcript, the scalar table, the point table and the point
\* labels unchanged, so the challenge does not depend on the constraint
\* structure: the prover squeezes it from the same transcript with a
\* constraint left out.
C13_Original ==
    /\ ConstrainFrame
    /\ (Constrained /\ step > Total(pin))
         => \A b \in Blindings(prover) : \A k \in 1 .. Len(prover.constraints) :
              ProverKey(Without(prover, k), b) = ProverKey(prover, b)
\* C13 amended: constrain only appends (lhs, rhs) to the constraint list and
\* leaves the transcript, the scalar table, the point table and the point
\* labels unchanged, so the transcript before prove does not depend on the
\* constraint structure; the challenge does, through the blinding commitment
\* that prove appends for every constraint before the squeeze.
C13_ConstrainOnlyAppends ==
    /\ ConstrainFrame
    /\ (Constrained /\ step > Total(pin))
         => \A b \in Blindings(prover) :
              /\ Len(ProverKey(prover, b))
                   = Len(AfterAllocs.transcript) + Len(prover.constraints) + 1
              /\ SubSeq(ProverKey(prover, b), 1, Len(AfterAllocs.transcript))
                   = AfterAllocs.transcript
              /\ \A k \in 1 .. Len(prover.constraints) :
                   ProverKey(Without(prover, k), b) # ProverKey(prover, b)
C13_Witness ==
    /\ Constrained /\ step > Total(pin)
    /\ Len(prover.constraints) = 2
    /\ prover.transcript = AfterAllocs.transcript

\* the number of scalars, and of points, among the first n allocations
ScalarsBefore(n) == Cardinality({i \in 1 .. n : pin.allocs[i].kind = "scalar"})
PointsBefore(n) == Cardinality({i \in 1 .. n : pin.allocs[i].kind = "point"})

\* C14: Prover::allocate_scalar appends exactly ("scvar", label) to the
\* transcript, appends the value to the end of the scalar table and returns a
\* dense index, the k-th call (from 0) returning ScalarVar(k); the point
\* table, the point labels and the constraints are unchanged.
C14_AllocateScalar ==
    [][PAllocScalar
        => /\ prover'.transcript
                = prover.transcript \o << <<"scvar", pin.allocs[step].label>> >>
           /\ prover'.scalars = prover.scalars \o <<pin.allocs[step].val>>
           /\ pvars'[pin.allocs[step].id] = ScalarsBefore(step - 1)
           /\ pvars'[pin.allocs[step].id] = Len(prover'.scalars) - 1
           /\ prover'.points = prover.points
           /\ prover'.point_labels = prover.point_labels
           /\ prover'.constraints = prover.constraints]_vars
C14_Witness ==
    /\ pc = "prover" /\ Len(prover.scalars) = 2 /\ Len(prover.points) = 0
    /\ pvars["x"] = 0 /\ pvars["y"] = 1
    /\ prover.transcript[Len(prover.transcript)] = <<"scvar", "y">>

\* C15: Prover::allocate_point appends exactly ("ptvar", label, value) to the
\* transcript, records label and value at the end of the point table and
\* returns the handle of that entry, with the point it was given; the scalar
\* table and the constraints are unchanged.
C15_AllocatePoint ==
    [][PAllocPoint
        => /\ prover'.transcript
                = prover.transcript
                    \o << <<"ptvar", pin.allocs[step].label, pin.allocs[step].val>> >>
           /\ prover'.points = prover.points \o <<pin.allocs[step].val>>
           /\ prover'.point_labels = prover.point_labels \o <<pin.allocs[step].label>>
           /\ pvars'[pin.allocs[step].id] = PointsBefore(step - 1)
           /\ prover'.points[pvars'[pin.allocs[step].id] + 1] = pin.allocs[step].val
           /\ allocate_point(prover, pin.allocs[step].label, pin.allocs[step].val).point
                = pin.allocs[step].val
           /\ prover'.scalars = prover.scalars
           /\ prover'.constraints = prover.constraints]_vars
C15_Witness ==
    /\ pc = "prover" /\ Len(prover.points) = 3 /\ Len(prover.scalars) = 1
    /\ pvars["A"] = 2 /\ prover.points[3] # identity
    /\ prover.transcript[Len(prover.transcript)] = <<"ptvar", "A", prover.points[3]>>

\* the labels of the blinding commitments on the prover's transcript, in the
\* order prove appended them
BlindcomIdx ==
    {i \in 1 .. Len(trans.p) : trans.p[i][1] = "blindcom"}
NthOf(S, n) == CHOOSE i \in S : Cardinality({k \in S : k < i}) = n - 1
BlindcomLabels ==
    [n \in 1 .. Cardinality(BlindcomIdx) |-> trans.p[NthOf(BlindcomIdx, n)][2]]
\* the lhs points of the prover's constraints in allocation order, and in the
\* order the constraints were added
LhsHandles == {prover.constraints[i][1] : i \in 1 .. Len(prover.constraints)}
LhsLabelsByAllocation ==
    [n \in 1 .. Cardinality(LhsHandles) |-> prover.point_labels[NthOf(LhsHandles, n) + 1]]
LhsLabelsByConstraint ==
    [i \in 1 .. Len(prover.constraints) |-> prover.point_labels[prover.constraints[i][1] + 1]]
Proved == pc \in {"proved", "done"}

\* C16 as stated: the sequence of commitments produced by prove follows the
\* allocation order of the (lhs) points, whatever the order in which the
\* constraints were added.
C16_Original ==
    Proved => BlindcomLabels = LhsLabelsByAllocation
\* C16 amended: the sequence of commitments produced by prove follows the
\* order in which the constraints were added; it follows the allocation order
\* of the lhs points only when the constraints were added in that order.
C16_CommitmentOrder ==
    Proved => /\ BlindcomLabels = LhsLabelsByConstraint
              /\ (BlindcomLabels = LhsLabelsByAllocation)
                   <=> (LhsLabelsByConstraint = LhsLabelsByAllocation)
C16_Witness ==
    /\ Proved /\ Len(prover.constraints) = 2
    /\ LhsLabelsByConstraint # LhsLabelsByAllocation
    /\ BlindcomLabels = <<"G", "A">>

\* the scalars of the prover that no constraint mentions
UnusedScalars ==
    {i \in 1 .. Len(prover.scalars) :
        \A k \in 1 .. Len(prover.constraints) :
            \A t \in 1 .. Len(prover.constraints[k][2]) :
                prover.constraints[k][2][t][1] # i - 1}

\* the blindings behind the responses of the proof: b_i = r_i - c * x_i
BlindingsOf ==
    [i \in 1 .. Len(prover.scalars) |->
        (proof.responses[i] + Order * Order
            - oracle[trans.p] * prover.scalars[i]) % Order]

\* C17: the response vector of a proof has exactly n_scalars entries, in
\* allocate_scalar order; entry i is b_i + c * x_i, where b is the vector of
\* blindings the commitments on the transcript were made with and c is the
\* challenge squeezed from that transcript. A blinding and a response exist
\* for every allocated scalar, used by a constraint or not.
C17_Responses ==
    Proved =>
        /\ Len(proof.responses) = Len(prover.scalars)
        /\ \E b \in {BlindingsOf} \cap Blindings(prover) :
             /\ trans.p = ProverKey(prover, b)
             /\ \A i \in 1 .. Len(prover.scalars) :
                  proof.responses[i]
                    = (b[i] + oracle[trans.p] * prover.scalars[i]) % Order
C17_Witness ==
    /\ Proved
    /\ Len(proof.responses) = 2
    /\ UnusedScalars = {2}
    /\ oracle[trans.p] # 0
    /\ prover.scalars[1] # 0
    /\ prover.scalars[1] # prover.scalars[2]

\* the sum of b_s * Q over the first n terms (s, Q) of a linear combination
RECURSIVE RhsSum(_, _, _)
RhsSum(b, lc, n) ==
    IF n = 0 THEN identity
    ELSE PointAdd(RhsSum(b, lc, n - 1),
                  PointMul(prover.points[lc[n][2] + 1], b[lc[n][1] + 1]))
\* what prove appended after the variable bindings and before the squeeze
AppendedByProve ==
    SubSeq(trans.p, Len(prover.transcript) + 1, Len(trans.p) - 1)
\* a constraint whose lhs value is not the value of its right-hand side
FalseConstraints ==
    {k \in 1 .. Len(prover.constraints) :
        prover.points[prover.constraints[k][1] + 1]
            # RhsSum(prover.scalars, prover.constraints[k][2],
                     Len(prover.constraints[k][2]))}

\* C18: prove produces exactly one commitment per constraint, in insertion
\* order; commitment i is the sum over the right-hand side of constraint i of
\* b_s * Q (the value of the lhs point is not used), and it is appended to
\* the transcript as ("blindcom", label of the lhs point, T_i).
C18_Commitments ==
    Proved =>
        /\ Len(AppendedByProve) = Len(prover.constraints)
        /\ \A i \in 1 .. Len(prover.constraints) :
             AppendedByProve[i]
               = <<"blindcom",
                   prover.point_labels[prover.constraints[i][1] + 1],
                   RhsSum(BlindingsOf, prover.constraints[i][2],
                          Len(prover.constraints[i][2]))>>
        /\ mode = "batchable" =>
             /\ Len(proof.commitments) = Len(prover.constraints)
             /\ \A i \in 1 .. Len(prover.constraints) :
                  proof.commitments[i] = AppendedByProve[i][3]
C18_Witness ==
    /\ Proved /\ mode = "batchable"
    /\ Len(proof.commitments) = 2
    /\ proof.commitments[1] # proof.commitments[2]
    /\ proof.commitments[1] # identity
    /\ FalseConstraints # {}

\* the transcript each side is writing to: the caller's before new, the one
\* the constraint system holds until prove / verify hands it back
PLog == IF pc = "p_new" \/ Proved THEN trans.p ELSE prover.transcript
VLog == IF pc \in {"verifier", "proved"} THEN verifier.transcript ELSE trans.v
IsPrefix(s, t) == Len(s) <= Len(t) /\ SubSeq(t, 1, Len(s)) = s
\* the phase an entry of the transcript belongs to
Rank(e) ==
    CASE e[1] = "proof-label" -> 1
      [] e[1] \in {"scvar", "ptvar"} -> 2
      [] e[1] = "blindcom" -> 3
      [] e[1] = "challenge" -> 4
      [] OTHER -> 0
\* the binding the k-th allocation of a statement puts on the transcript
Binding(in, k) ==
    IF in.allocs[k].kind = "scalar" THEN <<"scvar", in.allocs[k].label>>
    ELSE <<"ptvar", in.allocs[k].label, in.allocs[k].val>>
\* what a side has appended is: the proof label, then the bindings in
\* allocation order, then the blinding commitments, then one squeeze "chal"
Ordered(log, in) ==
    /\ IsPrefix(Start(in), log)
    /\ LET tail == SubSeq(log, Len(Start(in)) + 1, Len(log))
           n == Len(in.allocs)
           m == Len(in.cons)
       IN /\ Len(tail) <= n + m + 2
          /\ \A k \in 1 .. Len(tail) :
               /\ k = 1 => tail[k] = <<"proof-label", in.proof_label>>
               /\ (k > 1 /\ k <= n + 1) => tail[k] = Binding(in, k - 1)
               /\ (k > n + 1 /\ k <= n + m + 1) => Rank(tail[k]) = 3
               /\ k = n + m + 2 => tail[k] = <<"challenge", "chal">>
Complete(log, in) == Len(log) = Len(Start(in)) + Len(in.allocs) + Len(in.cons) + 2
UpToSqueeze(log) == SubSeq(log, 1, Len(log) - 1)

\* C19: in every run each side's transcript only grows, and what it appends
\* is the proof-label domain separator first, then the variable bindings in
\* allocation order, then all n_constraints blinding commitments, and then
\* the challenge is squeezed, once, with label "chal"; an honest prover and
\* the verifier of the same statement have appended the same sequence up to
\* the squeeze.
C19_TranscriptOrder ==
    /\ [](/\ Ordered(PLog, pin)
          /\ Ordered(VLog, vin)
          /\ Proved => Complete(PLog, pin)
          /\ Done => Complete(VLog, vin)
          /\ (Done /\ Honest(pin) /\ Matching /\ wire = proof)
                => UpToSqueeze(trans.v) = UpToSqueeze(trans.p))
    /\ [][IsPrefix(PLog, PLog') /\ IsPrefix(VLog, VLog')]_vars
C19_Witness ==
    /\ Done /\ Honest(pin) /\ Matching /\ wire = proof
    /\ mode = "compact"
    /\ Len(pin.cons) = 2
    /\ trans.v = trans.p
    /\ Rank(trans.p[Len(trans.p) - 1]) = 3
    /\ trans.p[Len(trans.p) - 1][3] # identity
    /\ Rank(trans.p[Len(trans.p)]) = 4

\* the state a transcript was in when the proof statement was created on it:
\* everything up to and including the last message the application appended
LastMsg(log) ==
    CHOOSE i \in 1 .. Len(log) :
        /\ log[i][1] = "msg"
        /\ \A k \in (i + 1) .. Len(log) : log[k][1] # "msg"
Before(log) == SubSeq(log, 1, LastMsg(log))

\* C20: after an honest prove on transcript Tp and a successful verification
\* of that proof on transcript Tv, where Tp and Tv were in equal states
\* beforehand, Tp and Tv are in equal states again (and the next proof of the
\* chain is made on them).
C20_TranscriptsStayEqual ==
    (Done /\ result = "Ok" /\ wire = proof /\ Honest(pin)
          /\ Before(trans.p) = Before(trans.v))
        => trans.p = trans.v
C20_Witness ==
    /\ Done /\ result = "Ok" /\ wire = proof /\ Honest(pin)
    /\ round = 2
    /\ Before(trans.p) = Before(trans.v)
    /\ LastMsg(trans.p) > 2
    /\ trans.p = trans.v
    /\ proof.responses[1] # 0
    /\ proof.commitments[1] # identity

\* C24: every random weight alpha_j used by batch verification is a non-zero
\* scalar: rand_scalar never yields 0 as a weight.
C24_NonZeroWeights ==
    \A j \in 1 .. Len(weights) : weights[j] # 0

\* C22: in every reachable state of a Prover, after any sequence of
\* allocate_scalar, allocate_point and constrain, every recorded constraint
\* has a non-empty rhs.
C22_NonEmptyRhs ==
    \A k \in 1 .. Len(prover.constraints) : prover.constraints[k][2] # << >>

\* C25: after any sequence of allocate_scalar, allocate_point and constrain
\* calls on a Prover, the point table and the point-label table have equal
\* length, every handle the prover issued indexes inside its table, and every
\* index prove takes from a constraint built from those handles is inside the
\* table it indexes.
C25_HandlesInBounds ==
    /\ Len(prover.points) = Len(prover.point_labels)
    /\ \A id \in ApiScalarIds \cap DOMAIN pvars :
         pvars[id] \in 0 .. (Len(prover.scalars) - 1)
    /\ \A id \in ApiPointIds \cap DOMAIN pvars :
         pvars[id] \in 0 .. (Len(prover.points) - 1)
    /\ \A k \in 1 .. Len(prover.constraints) :
         /\ prover.constraints[k][1] + 1 \in DOMAIN prover.point_labels
         /\ \A t \in 1 .. Len(prover.constraints[k][2]) :
              /\ prover.constraints[k][2][t][1] + 1 \in DOMAIN prover.scalars
              /\ prover.constraints[k][2][t][2] + 1 \in DOMAIN prover.points
C25_Witness ==
    /\ pc = "done"
    /\ Len(prover.scalars) = 1 /\ Len(prover.points) = 1
    /\ Len(prover.constraints) = 1
    /\ prover.constraints[1] = <<0, << <<0, 0>> >> >>
    /\ Len(proof.responses) = 1

\* the verifier of instance j alone, on transcript j
SingleVerifier(j) == macro_verifier(bin.vins[j], BatchStart(j))

\* C23: batch verification does not merge transcripts. A static point is
\* appended to every one of the N instance transcripts, the j-th value of an
\* instance point is appended to the j-th transcript only, and the challenge
\* of instance j is the one verify_batchable of instance j alone squeezes
\* from transcript j for that instance's points and commitments.
C23_NoMerging ==
    /\ [][BAllocStatic
           => \A j \in 1 .. bin.n :
                batch'.transcripts[j]
                  = Append(batch.transcripts[j],
                           <<"ptvar", bin.allocs[step].label, bin.allocs[step].val>>)]_vars
    /\ [][(BAllocInstance /\ pc' = "batch")
           => \A j \in 1 .. bin.n :
                batch'.transcripts[j]
                  = Append(batch.transcripts[j],
                           <<"ptvar", bin.allocs[step].label, bin.allocs[step].val[j]>>)]_vars
    /\ [](Done =>
            \A j \in 1 .. bin.n :
              /\ batch.transcripts[j] = EachKey(SingleVerifier(j), bproofs[j])
              /\ oracle[batch.transcripts[j]]
                   = get_challenge(oracle, AbsorbLoop(SingleVerifier(j), bproofs[j],
                                                      Len(bin.cons)), "chal"))
C23_Witness ==
    /\ Done /\ bin.n = BatchSize
    /\ batch.transcripts[1] # batch.transcripts[2]
    /\ oracle[batch.transcripts[1]] # oracle[batch.transcripts[2]]
    /\ \A j \in 1 .. bin.n : batch.transcripts[j] = EachKey(SingleVerifier(j), bproofs[j])

\* the index pairs inside a matrix
InRange(m) == (0 .. (m.rows - 1)) \X (0 .. (m.cols - 1))

\* C26: a Matrix created by new(rows, cols) holds exactly rows * cols default
\* entries; index (r, c) with r < rows and c < cols addresses entry
\* cols * r + c, distinct in-range pairs address distinct entries, a write
\* through index_mut at (r, c) is read back at (r, c) and leaves every other
\* entry unchanged, and row_major_entries yields the entries row by row.
C26_Matrix ==
    /\ [](pc = "m_created" =>
            /\ Len(row_major_entries(matrix)) = matrix.rows * matrix.cols
            /\ \A k \in 1 .. Len(row_major_entries(matrix)) :
                 row_major_entries(matrix)[k] = 0)
    /\ [](pc \in {"m_created", "m_written"} =>
            /\ Len(row_major_entries(matrix)) = matrix.rows * matrix.cols
            /\ \A p \in InRange(matrix) :
                 /\ matrix.cols * p[1] + p[2] < Len(matrix.entries)
                 /\ index(matrix, p[1], p[2])
                      = row_major_entries(matrix)[matrix.cols * p[1] + p[2] + 1]
                 /\ \A q \in InRange(matrix) \ {p} :
                      matrix.cols * p[1] + p[2] # matrix.cols * q[1] + q[2]
            /\ row_major_entries(matrix)
                 = [k \in 1 .. matrix.rows * matrix.cols |->
                      index(matrix, (k - 1) \div matrix.cols, (k - 1) % matrix.cols)])
    /\ [][(pc \in {"m_created", "m_written"}) =>
            (\A p \in InRange(matrix) : \A v \in MatrixValues :
               MatrixWriteAt(p[1], p[2], v)
                 => (/\ index(matrix', p[1], p[2]) = v
                     /\ \A q \in InRange(matrix) \ {p} :
                          index(matrix', q[1], q[2]) = index(matrix, q[1], q[2])
                     /\ Len(matrix'.entries) = Len(matrix.entries)))]_vars
C26_Witness ==
    /\ pc = "m_written"
    /\ matrix.rows = 2 /\ matrix.cols = 2
    /\ index(matrix, 0, 1) = 1
    /\ index(matrix, 1, 0) = 2
    /\ row_major_entries(matrix) = <<0, 1, 2, 0>>

\* C21: the blindings are a function of the transcript state at prove time,
\* the witness scalars in allocation order and the external entropy only:
\* runs of prove that agree on these have the same blindings, and if they
\* also agree on the points and the constraints they produce the same proof.
C21_SeededBlindings ==
    pc = "proving" =>
      \A r1 \in runs : \A r2 \in runs :
        (/\ r1.self.transcript = r2.self.transcript
         /\ r1.self.scalars = r2.self.scalars
         /\ r1.entropy = r2.entropy)
          => /\ r1.blindings = r2.blindings
             /\ (r1.self.points = r2.self.points
                   /\ r1.self.constraints = r2.self.constraints)
                  => r1.proof = r2.proof
\* changing the external entropy alone changed the blindings and the proof,
\* and changing the witness alone changed the blindings
C21_Witness ==
    /\ pc = "proving"
    /\ \E r1 \in runs : \E r2 \in runs :
         /\ r1.self = r2.self
         /\ r1.entropy # r2.entropy
         /\ r1.blindings # r2.blindings
         /\ r1.proof # r2.proof
    /\ \E r1 \in runs : \E r2 \in runs :
         /\ r1.self.transcript = r2.self.transcript
         /\ r1.self.points = r2.self.points
         /\ r1.self.constraints = r2.self.constraints
         /\ r1.entropy = r2.entropy
         /\ r1.self.scalars # r2.self.scalars
         /\ r1.blindings # r2.blindings

====
